---- MODULE Spec2Model ----
(***************************************************************************)
(* Model of the moderation layer of AntiCheatsBP:                          *)
(*   - core/commandManager.js : command registration and handleChatCommand *)
(*   - commands/ban.js        : the ban command's execute                  *)
(*   - core/actionManager.js  : executeCheckAction and its formatting      *)
(*   - core/reportManager.js  : the report cache and its backing key       *)
(* Strings of the source are kept as strings; a message built from a       *)
(* template is a record of the template text and its substituted values,   *)
(* so that two messages are equal exactly when their text is equal.        *)
(***************************************************************************)
EXTENDS Integers, Sequences, FiniteSets, TLC

VARIABLES
    commandDefinitionMap,   \* Map name -> CommandDefinition (commandManager.js)
    commandExecutionMap,    \* Map name -> executor kind      (commandManager.js)
    config,                 \* editableConfigValues: prefix, commandAliases, commandSettings
    connected,              \* the players currently in the world
    bans,                   \* player id -> the player has a ban record (playerDataManager)
    auditLog,               \* the action types of the entries appended through addLog
    now,                    \* Date.now()
    last,                   \* what the last handler invocation did (observation)
    tasks,                  \* the calls of executeCheckAction (actionManager.js)
    playerData,             \* player id -> moderation state (playerDataManager)
    formatted,              \* the last call of formatViolationDetails: argument and result
    reportsInMemory,        \* the report cache: references to entries, newest first
    reportsAreDirty,        \* the cache differs from what was persisted
    dynamicProperty,        \* world dynamic property "anticheat:reports_v1"
    objects,                \* reference -> the fields of a report entry
    heldReports,            \* the array a caller got from getReports
    reportsAdded,           \* the ids addReport has returned, in order
    reportLast              \* the last call into reportManager.js and its result

gatewayVars == <<commandDefinitionMap, commandExecutionMap, config, connected, bans,
                 auditLog, now, last>>

actionVars == <<tasks, playerData, formatted>>

reportVars == <<reportsInMemory, reportsAreDirty, dynamicProperty, objects, heldReports,
                reportsAdded, reportLast>>

vars == <<gatewayVars, actionVars, reportVars>>

----------------------------------------------------------------------------
(* Bounds of the model                                                     *)

MaxEvents == 2    \* direct calls of the ban executor in one behaviour
MaxHandlers == 2  \* calls of executeCheckAction that may be in progress together
MaxReports == 1   \* reports accepted in one behaviour of the report cache
MaxAdds == 102    \* reports accepted in one behaviour that fills the cache
MaxFlags == 2     \* a player at this many flags of one type is not reported again
MaxEntries == 3   \* properties of a violation details object given to the formatter

----------------------------------------------------------------------------
(* Values of the host and of modules outside this model                    *)

permissionLevels == [owner |-> 0, admin |-> 1, normal |-> 1024]

Player(id, nameTag, level) == [id |-> id, nameTag |-> nameTag, level |-> level]

NullPlayer == Player("null", "null", -1)

Olga == Player("p1", "Olga", permissionLevels.owner)
Oscar == Player("p2", "Oscar", permissionLevels.owner)
Adam == Player("p3", "Adam", permissionLevels.admin)
Alice == Player("p4", "Alice", permissionLevels.normal)

Players == {Olga, Oscar, Adam, Alice}

getPlayerPermissionLevel(player) == player.level

Undefined == [kind |-> "undefined", val |-> ""]
Str(s) == [kind |-> "string", val |-> s]
Obj(s) == [kind |-> "object", val |-> s]

Truthy(v) == v.kind = "object" \/ (v.kind = "string" /\ v.val # "")

\* String.prototype.toLowerCase on the strings of this model
toLowerCase(s) ==
    CASE s \in {"BAN", "Ban"} -> "ban"
      [] s \in {"B"} -> "b"
      [] s \in {"Help", "HELP"} -> "help"
      [] s \in {"Vanish"} -> "vanish"
      [] OTHER -> s

\* a reason string: its template text and the values substituted into it
Reason(text, params) == [text |-> text, params |-> params]

NoReason == Reason("", <<>>)

\* a message: the template text (or i18n key), the values substituted into it
\* and, for the messages that quote it, the ban reason
MsgFull(text, params, reason, at) ==
    [text |-> text, params |-> params, reason |-> reason, at |-> at]

MsgR(text, params, reason) == MsgFull(text, params, reason, -1)

Msg(text, params) == MsgR(text, params, NoReason)

\* core/i18n.js getString(key, params): the localized text of key with params
getString(key, params) == Msg(key, params)

\* utils/playerUtils.js parseDuration: milliseconds, Infinity or null
DurNull == [kind |-> "null", ms |-> 0]
DurInf == [kind |-> "inf", ms |-> 0]
DurMs(n) == [kind |-> "num", ms |-> n]

parseDuration(durationString) ==
    CASE durationString \in {"perm", "permanent"} -> DurInf
      [] durationString = "7d" -> DurMs(7 * 24 * 60 * 60 * 1000)
      [] durationString = "1h" -> DurMs(60 * 60 * 1000)
      [] durationString = "0d" -> DurMs(0)
      [] durationString = "-1h" -> DurMs(0 - 60 * 60 * 1000)
      [] OTHER -> DurNull

\* utils/playerUtils.js findPlayer: the connected player of that name, or none
findPlayer(targetPlayerName, online) ==
    IF \E p \in online : p.nameTag = targetPlayerName
    THEN CHOOSE p \in online : p.nameTag = targetPlayerName
    ELSE NullPlayer

\* a ban record stored before the run; no code of this model reads its fields
EarlierBan == [banned |-> TRUE, reason |-> Reason("(earlier ban)", <<>>), bannedBy |-> "",
               permanent |-> TRUE, unbanTime |-> 0, isAutoMod |-> FALSE, checkType |-> ""]

NoBan == [banned |-> FALSE, reason |-> NoReason, bannedBy |-> "", permanent |-> FALSE,
          unbanTime |-> 0, isAutoMod |-> FALSE, checkType |-> ""]

\* playerDataManager.addBan: the record stored for the target
BanRecord(durationMs, reason, bannedBy, isAutoModAction, autoModCheckType, t) ==
    [banned |-> TRUE, reason |-> reason, bannedBy |-> bannedBy,
     permanent |-> (durationMs.kind = "inf"),
     unbanTime |-> IF durationMs.kind = "inf" THEN 0 ELSE t + durationMs.ms,
     isAutoMod |-> isAutoModAction, checkType |-> autoModCheckType]

\* playerDataManager.getBanInfo: the stored record, or null (NoBan)
getBanInfo(banTable, player) == banTable[player.id]

----------------------------------------------------------------------------
(* One run of a handler: the world it leaves and what it did               *)

Run0(banTable, online) ==
    [bans |-> banTable, connected |-> online,
     cancel |-> FALSE,          \* eventData.cancel
     cancelAtReturn |-> FALSE,  \* eventData.cancel when control first went back to the host
     returned |-> FALSE,        \* control has gone back to the host once
     path |-> "",               \* the branch of handleChatCommand that ended the run
     error |-> "none",          \* the error a run ended with, uncaught
     sent |-> <<>>,             \* player.sendMessage / warnPlayer calls
     console |-> <<>>,          \* console.warn / console.log / console.error calls
     execCalls |-> <<>>,        \* calls of a command executor
     addBanCalls |-> <<>>,      \* calls of playerDataManager.addBan
     kicks |-> <<>>,            \* successful foundPlayer.kick calls
     kickAttempts |-> 0,        \* all foundPlayer.kick calls
     notified |-> <<>>,         \* playerUtils.notifyAdmins calls
     logged |-> <<>>,           \* addLog calls
     debug |-> <<>>]            \* playerUtils.debugLog calls of the ban executor

Send(r, player, m) == [r EXCEPT !.sent = Append(@, [to |-> player.id, msg |-> m])]

Console(r, m) == [r EXCEPT !.console = Append(@, m)]

Throw(r, e) == [r EXCEPT !.error = e]

\* the message goes to the issuer, or to the console when the issuer is null
Answer(r, player, m) == IF player # NullPlayer THEN Send(r, player, m) ELSE Console(r, m)

----------------------------------------------------------------------------
(* commands/ban.js                                                         *)

definition ==
    [name |-> "ban", permissionLevel |-> permissionLevels.admin, enabled |-> TRUE]

\* `AutoMod action for ${autoModCheckType || 'violations'}.`
autoModReason(autoModCheckType) ==
    Reason("AutoMod action for {0}.",
           <<IF autoModCheckType # "" THEN autoModCheckType ELSE "violations">>)

\* lines 51-56: the reason. args.slice(2).join(" ") is kept as the joined tokens;
\* it is the empty string when there is no token or one empty token.
banReason(args, invokedBy, autoModCheckType) ==
    LET rest == SubSeq(args, 3, Len(args))
        joinedIsEmpty == rest = <<>> \/ rest = <<"">>
    IN  IF invokedBy = "AutoMod" /\ Len(args) <= 2
        THEN autoModReason(autoModCheckType)
        ELSE IF ~joinedIsEmpty THEN Reason("{join}", rest)
        ELSE IF invokedBy = "AutoMod" THEN autoModReason(autoModCheckType)
        ELSE Reason("Banned by an administrator.", <<>>)

\* a variant of lines 75-91 that protects only targets above the admin level
hierarchyDenialAboveAdmin(player, foundPlayer) ==
    LET targetPermissionLevel == getPlayerPermissionLevel(foundPlayer)
        issuerPermissionLevel == getPlayerPermissionLevel(player)
    IN  IF targetPermissionLevel < permissionLevels.admin
           /\ issuerPermissionLevel > permissionLevels.owner
        THEN "command.ban.permissionInsufficient"
        ELSE IF targetPermissionLevel = permissionLevels.owner
                /\ issuerPermissionLevel = permissionLevels.owner
                /\ player.id # foundPlayer.id
        THEN "command.ban.ownerByOwner"
        ELSE ""

\* a variant of lines 75-91 without the owner-by-owner test of lines 87-90
hierarchyDenialOwnersUnchecked(player, foundPlayer) ==
    LET targetPermissionLevel == getPlayerPermissionLevel(foundPlayer)
        issuerPermissionLevel == getPlayerPermissionLevel(player)
    IN  IF targetPermissionLevel <= permissionLevels.admin
           /\ issuerPermissionLevel > permissionLevels.owner
        THEN "command.ban.permissionInsufficient"
        ELSE IF targetPermissionLevel <= permissionLevels.owner
                /\ issuerPermissionLevel > permissionLevels.owner
        THEN "command.ban.ownerByNonOwner"
        ELSE ""

\* lines 75-91: the issuer/target hierarchy; the denial's key, or "" to go on
hierarchyDenial(player, foundPlayer) ==
    LET targetPermissionLevel == getPlayerPermissionLevel(foundPlayer)
        issuerPermissionLevel == getPlayerPermissionLevel(player)
    IN  IF targetPermissionLevel <= permissionLevels.admin
           /\ issuerPermissionLevel > permissionLevels.owner
        THEN "command.ban.permissionInsufficient"
        ELSE IF targetPermissionLevel <= permissionLevels.owner
                /\ issuerPermissionLevel > permissionLevels.owner
        THEN "command.ban.ownerByNonOwner"
        ELSE IF targetPermissionLevel = permissionLevels.owner
                /\ issuerPermissionLevel = permissionLevels.owner
                /\ player.id # foundPlayer.id
        THEN "command.ban.ownerByOwner"
        ELSE ""

\* a variant of line 94 that lets a zero duration through
invalidDurationBelowZero(durationMs) ==
    \/ durationMs.kind = "null"
    \/ (durationMs.kind = "num" /\ durationMs.ms < 0)

\* line 94: durationMs === null || (durationMs <= 0 && durationMs !== Infinity)
invalidDuration(durationMs) ==
    \/ durationMs.kind = "null"
    \/ (durationMs.kind = "num" /\ durationMs.ms <= 0)

\* a variant of line 104 that names the issuer, whoever invoked the command
responsibleIdentityIssuerOnly(player, invokedBy) ==
    IF player # NullPlayer THEN player.nameTag ELSE "System"

\* line 104
responsibleIdentity(player, invokedBy) ==
    IF invokedBy = "AutoMod" THEN "AutoMod"
    ELSE IF player # NullPlayer THEN player.nameTag ELSE "System"

\* a variant of lines 134-141 without the try/catch: the kick's error escapes
kickTargetUncaught(r, foundPlayer, kickMessage, dependencies, env) ==
    IF env.kickThrows
    THEN Throw([r EXCEPT !.kickAttempts = @ + 1], "Error")
    ELSE [r EXCEPT !.kickAttempts = @ + 1,
                   !.kicks = Append(@, [target |-> foundPlayer.nameTag,
                                        message |-> kickMessage]),
                   !.connected = @ \ {foundPlayer}]

\* lines 134-141: try { foundPlayer.kick(kickMessage) } catch (e) { debug trace }
kickTarget(r, foundPlayer, kickMessage, dependencies, env) ==
    IF env.kickThrows
    THEN [r EXCEPT !.kickAttempts = @ + 1,
                   !.debug = IF dependencies.config.enableDebugLogging
                             THEN Append(@, Msg("Attempted to kick banned player {0} but they might have already disconnected",
                                                <<foundPlayer.nameTag>>))
                             ELSE @]
    ELSE [r EXCEPT !.kickAttempts = @ + 1,
                   !.kicks = Append(@, [target |-> foundPlayer.nameTag,
                                        message |-> kickMessage]),
                   !.connected = @ \ {foundPlayer}]

\* a variant of lines 157-164 that also writes an audit entry for the failure
banFailedLogged(r, player, foundPlayer) ==
    LET r1 == Answer(r, player, getString("command.ban.fail", <<foundPlayer.nameTag>>))
    IN  [r1 EXCEPT !.logged =
            Append(@, [shape |-> "entry", timestamp |-> 0, adminName |-> "System",
                       actionType |-> "ban", targetName |-> foundPlayer.nameTag,
                       duration |-> "", reason |-> NoReason,
                       isAutoMod |-> FALSE, checkType |-> ""])]

\* lines 157-164: addBan returned a falsy value
banFailed(r, player, foundPlayer) ==
    Answer(r, player, getString("command.ban.fail", <<foundPlayer.nameTag>>))

\* lines 115-156: the ban was added
banApplied(r, player, foundPlayer, durationString, durationMs, reason, bannedBy, dependencies, isAutoModAction, autoModCheckType, env) ==
    LET banInfo == getBanInfo(r.bans, foundPlayer)
        actualReason == IF banInfo.banned THEN banInfo.reason ELSE reason
        actualBannedBy == IF banInfo.banned THEN banInfo.bannedBy ELSE bannedBy
        unbanTimeDisplay == IF banInfo.banned THEN banInfo.unbanTime
                            ELSE env.now + durationMs.ms
        kickMessage ==
            << getString("command.ban.kickMessagePrefix", <<>>),
               MsgR("command.ban.kickMessageReason", <<>>, actualReason),
               getString("command.ban.kickMessageBannedBy", <<actualBannedBy>>),
               IF durationMs.kind = "inf"
               THEN getString("command.ban.kickMessagePermanent", <<>>)
               ELSE MsgFull("command.ban.kickMessageExpires", <<>>, NoReason,
                            unbanTimeDisplay) >>
        r1 == kickTarget(r, foundPlayer, kickMessage, dependencies, env)
        successMessage == MsgR("command.ban.success",
                               <<foundPlayer.nameTag, durationString>>, actualReason)
        r2 == Answer(r1, player, successMessage)
        r3 == IF "playerUtils.notifyAdmins" \in dependencies.keys
              THEN [r2 EXCEPT !.notified =
                       Append(@, [msg |-> MsgR("command.ban.adminNotification",
                                               <<foundPlayer.nameTag, actualBannedBy,
                                                 durationString>>, actualReason),
                                  player |-> player.id,
                                  pData |-> foundPlayer.id])]
              ELSE r2
        entry == [shape |-> "entry", timestamp |-> env.now, adminName |-> actualBannedBy,
                  actionType |-> "ban", targetName |-> foundPlayer.nameTag,
                  duration |-> durationString, reason |-> actualReason,
                  isAutoMod |-> isAutoModAction, checkType |-> autoModCheckType]
    IN  IF "addLog" \in dependencies.keys
        THEN [r3 EXCEPT !.logged = Append(@, entry)]
        ELSE r3

\* lines 93-165: the duration, the ban record and what follows it
banTarget(r, player, foundPlayer, durationString, reason, dependencies, invokedBy, isAutoModAction, autoModCheckType, env) ==
    IF "parseDuration" \notin dependencies.keys THEN Throw(r, "TypeError")
    ELSE
    LET durationMs == parseDuration(durationString) IN
    IF invalidDuration(durationMs)
    THEN IF player # NullPlayer
         THEN Send(r, player, getString("command.ban.invalidDuration", <<>>))
         ELSE Console(r, Msg("command.ban.invalidDuration (Invoked by {0})", <<invokedBy>>))
    ELSE IF "playerDataManager" \notin dependencies.keys THEN Throw(r, "TypeError")
    ELSE
    LET bannedBy == responsibleIdentity(player, invokedBy)
        call == [target |-> foundPlayer.id, durationMs |-> durationMs, reason |-> reason,
                 bannedBy |-> bannedBy, isAutoModAction |-> isAutoModAction,
                 autoModCheckType |-> autoModCheckType]
        banAdded == env.addBanOk
        r1 == [r EXCEPT !.addBanCalls = Append(@, call),
                        !.bans = IF banAdded
                                 THEN [@ EXCEPT ![foundPlayer.id] =
                                         BanRecord(durationMs, reason, bannedBy,
                                                   isAutoModAction, autoModCheckType,
                                                   env.now)]
                                 ELSE @]
    IN  IF banAdded
        THEN banApplied(r1, player, foundPlayer, durationString, durationMs, reason,
                        bannedBy, dependencies, isAutoModAction, autoModCheckType, env)
        ELSE banFailed(r1, player, foundPlayer)

\* a variant of lines 40-46 that answers nobody
usageAnswerSilent(r, player, dependencies) ==
    IF "config" \notin dependencies.keys THEN Throw(r, "TypeError") ELSE r

\* lines 40-46: the answer to a call without arguments
usageAnswer(r, player, dependencies) ==
    IF "config" \notin dependencies.keys THEN Throw(r, "TypeError")
    ELSE IF player # NullPlayer
    THEN Send(r, player, getString("command.ban.usage", <<dependencies.config.prefix>>))
    ELSE Console(r, Msg("Ban command called without player and insufficient args by system.",
                        <<>>))

\* lines 29-165
execute(r, player, args, dependencies, invokedBy, isAutoModAction, autoModCheckType, env) ==
    IF Len(args) < 1
    THEN usageAnswer(r, player, dependencies)
    ELSE
    LET targetPlayerName == args[1]
        durationString == IF Len(args) >= 2 /\ args[2] # "" THEN args[2] ELSE "perm"
        reason == banReason(args, invokedBy, autoModCheckType)
    IN
    IF "findPlayer" \notin dependencies.keys THEN Throw(r, "TypeError")
    ELSE
    LET foundPlayer == findPlayer(targetPlayerName, r.connected) IN
    IF foundPlayer = NullPlayer
    THEN Answer(r, player, getString("command.ban.notFoundOffline", <<targetPlayerName>>))
    ELSE IF player # NullPlayer /\ foundPlayer.id = player.id
    THEN Send(r, player, getString("command.ban.self", <<>>))
    ELSE IF invokedBy = "PlayerCommand" /\ player # NullPlayer
            /\ "getPlayerPermissionLevel" \notin dependencies.keys
    THEN Throw(r, "TypeError")
    ELSE IF invokedBy = "PlayerCommand" /\ player # NullPlayer
            /\ hierarchyDenial(player, foundPlayer) # ""
    THEN Send(r, player, getString(hierarchyDenial(player, foundPlayer), <<>>))
    ELSE banTarget(r, player, foundPlayer, durationString, reason, dependencies,
                   invokedBy, isAutoModAction, autoModCheckType, env)

----------------------------------------------------------------------------
(* core/commandManager.js                                                  *)

\* commands/commandRegistry.js: module lists the registration loop may be given.
\* execute is the kind of executor ("ban", another command, or "none" when the
\* module has no execute function).
banModule == [definition |-> definition, execute |-> "ban"]
helpModule ==
    [definition |-> [name |-> "Help", permissionLevel |-> permissionLevels.normal,
                     enabled |-> TRUE],
     execute |-> "other"]
vanishModule ==
    [definition |-> [name |-> "vanish", permissionLevel |-> permissionLevels.admin,
                     enabled |-> FALSE],
     execute |-> "other"]
panelModule ==
    [definition |-> [name |-> "panel", permissionLevel |-> permissionLevels.admin,
                     enabled |-> TRUE],
     execute |-> "none"]

commandModuleLists ==
    { <<banModule, helpModule, vanishModule, panelModule>>,
      <<helpModule, vanishModule>> }

EmptyMap == [k \in {} |-> 0]

MapSet(m, k, v) == [x \in DOMAIN m \cup {k} |-> IF x = k THEN v ELSE m[x]]

MapDelete(m, k) == [x \in DOMAIN m \ {k} |-> m[x]]

\* lines 35-50: the registration loop, from module i on
RECURSIVE registerCommands(_, _, _)
registerCommands(commandModules, i, maps) ==
    IF i > Len(commandModules) THEN maps
    ELSE LET cmdModule == commandModules[i] IN
         IF cmdModule.execute # "none"
         THEN LET cmdName == toLowerCase(cmdModule.definition.name) IN
              registerCommands(commandModules, i + 1,
                  [defs |-> MapSet(maps.defs, cmdName, cmdModule.definition),
                   execs |-> MapSet(maps.execs, cmdName, cmdModule.execute)])
         ELSE registerCommands(commandModules, i + 1, maps)

\* lines 7-19 with 26 and 33: the names bound at module level
moduleBindings ==
    {"mc", "configModule", "permissionLevels", "getPlayerPermissionLevel", "findPlayer",
     "parseDuration", "addLog", "reportManager", "ActionFormData", "MessageFormData",
     "ModalFormData", "ItemComponentTypes", "commandModules", "commandDefinitionMap",
     "commandExecutionMap"}

\* line 62: the parameters of handleChatCommand
handlerParameters == {"eventData", "playerDataManager", "uiManager", "config", "playerUtils"}

\* lines 133-149: property name -> the identifier whose value it gets
bundleProperties ==
    << <<"mc", "mc">>, <<"playerDataManager", "playerDataManager">>,
       <<"uiManager", "uiManager">>, <<"config", "config">>,
       <<"configModule", "configModule">>, <<"playerUtils", "playerUtils">>,
       <<"logManager", "logManager">>, <<"permissionLevels", "permissionLevels">>,
       <<"ActionFormData", "ActionFormData">>, <<"MessageFormData", "MessageFormData">>,
       <<"ModalFormData", "ModalFormData">>, <<"reportManager", "reportManager">>,
       <<"allCommands", "commandDefinitionMap">>,
       <<"commandDefinitionMap", "commandDefinitionMap">>,
       <<"ItemComponentTypes", "ItemComponentTypes">> >>

\* an identifier that is bound nowhere: evaluating it throws a ReferenceError
unboundIdentifiers ==
    { bundleProperties[i][2] : i \in DOMAIN bundleProperties }
        \ (moduleBindings \cup handlerParameters)

\* the keys of the dependency bundle; playerUtils carries notifyAdmins
bundleKeys ==
    { bundleProperties[i][1] : i \in DOMAIN bundleProperties }
        \cup {"playerUtils.notifyAdmins"}

\* the message after the prefix: String.prototype.substring(prefix.length).
\* A message is a sequence of pieces, each a maximal run of non-blank
\* characters or one blank " "; the prefix is its first piece.
substring(message, prefix) == IF Len(message) >= 1 THEN Tail(message) ELSE <<>>

IsBlank(piece) == piece = " "

RECURSIVE trimStart(_)
trimStart(s) == IF s # <<>> /\ IsBlank(Head(s)) THEN trimStart(Tail(s)) ELSE s

RECURSIVE trimEnd(_)
trimEnd(s) ==
    IF s # <<>> /\ IsBlank(s[Len(s)]) THEN trimEnd(SubSeq(s, 1, Len(s) - 1)) ELSE s

trim(s) == trimEnd(trimStart(s))

\* String.prototype.split(/\s+/): the empty string gives one empty token
split(s) == IF s = <<>> THEN <<"">> ELSE SelectSeq(s, LAMBDA piece : ~IsBlank(piece))

\* property names every ordinary object inherits and a lower-cased token can spell
objectPrototypeKeys == {"constructor", "__proto__"}

\* line 78: config.commandAliases?.[commandNameInput]
aliasLookup(commandAliases, commandNameInput) ==
    IF ~commandAliases.defined THEN Undefined
    ELSE IF commandNameInput \in DOMAIN commandAliases.own
    THEN Str(commandAliases.own[commandNameInput])
    ELSE IF commandNameInput \in objectPrototypeKeys THEN Obj(commandNameInput)
    ELSE Undefined

\* a variant of lines 94-97 in which an override can only disable a command
isEffectivelyEnabledUnlessDisabled(commandDef, cfg, finalCommandName) ==
    /\ commandDef.enabled
    /\ ( /\ cfg.commandSettings.defined
         /\ finalCommandName \in DOMAIN cfg.commandSettings.own
         /\ cfg.commandSettings.own[finalCommandName].hasEnabled
         => cfg.commandSettings.own[finalCommandName].enabled )

\* lines 94-97
isEffectivelyEnabled(commandDef, cfg, finalCommandName) ==
    IF cfg.commandSettings.defined
       /\ finalCommandName \in DOMAIN cfg.commandSettings.own
       /\ cfg.commandSettings.own[finalCommandName].hasEnabled
    THEN cfg.commandSettings.own[finalCommandName].enabled
    ELSE commandDef.enabled

\* control goes back to the host: a return, an uncaught throw, or the first await
Return(r, path) ==
    [r EXCEPT !.path = IF @ = "" THEN path ELSE @,
              !.cancelAtReturn = IF r.returned THEN @ ELSE r.cancel,
              !.returned = TRUE]

\* an executor that is not the ban command: it completes or throws
otherExecute(r, env) == IF env.executorThrows THEN Throw(r, "Error") ELSE r

\* line 152: commandExecute(player, args, dependencies)
commandExecute(kind, r, player, args, dependencies, env) ==
    LET called == [r EXCEPT !.execCalls =
                      Append(@, [kind |-> kind, actor |-> player.id, args |-> args,
                                 bundle |-> dependencies.keys])]
    IN  IF kind = "ban"
        THEN execute(called, player, args, dependencies, "PlayerCommand", FALSE, "", env)
        ELSE otherExecute(called, env)

\* lines 156-164: the catch block
commandFailed(r, player, finalCommandName, args) ==
    LET entry == [shape |-> "positional", timestamp |-> -1, adminName |-> "",
                  actionType |-> "command_error", targetName |-> "", duration |-> "",
                  reason |-> Reason("Cmd: {0}, Player: {1}, Args: [{join}], Error: {message}",
                                    <<finalCommandName, player.nameTag>> \o args),
                  isAutoMod |-> FALSE, checkType |-> ""]
        r1 == Send([r EXCEPT !.error = "none"], player,
                   Msg("§cAn error occurred while executing command '{0}'. Please report this.",
                       <<finalCommandName>>))
        r2 == Console(r1, Msg("[CommandManager] Error executing command {0} for player {1}",
                              <<finalCommandName, player.nameTag>>))
    IN  [r2 EXCEPT !.logged = Append(@, entry)]

\* lines 118-165: the command passed every check
dispatch(r, player, args, finalCommandName, commandKind, userPermissionLevel, cfg, env) ==
    LET r1 == [r EXCEPT !.cancel = TRUE]
        r2 == IF userPermissionLevel <= permissionLevels.admin
              THEN Console(r1, Msg("[AdminCommandLog] {timestamp} - Player: {0} - Command: {message}",
                                   <<player.nameTag>>))
              ELSE r1
    IN  IF unboundIdentifiers # {}
        THEN Return(Throw(r2, "ReferenceError"), "threw")
        ELSE LET dependencies == [keys |-> bundleKeys, config |-> cfg]
                 ran == commandExecute(commandKind, r2, player, args, dependencies, env)
                 awaited == Return(ran, "dispatched")
             IN  IF ran.error = "none" THEN awaited
                 ELSE commandFailed(awaited, player, finalCommandName, args)

\* line 73
missingCommandMessage(cfg) ==
    Msg("§cPlease enter a command after the prefix. Type {0}help for a list of commands.",
        <<cfg.prefix>>)

\* line 89
unknownCommandMessage(cfg, finalCommandName) ==
    Msg("§cUnknown command: {0}{1}§r. Type {0}help for assistance.",
        <<cfg.prefix, finalCommandName>>)

\* a variant of line 100 that tells the issuer the command exists
disabledCommandMessageTelling(cfg, finalCommandName) ==
    Msg("§cCommand {0}{1}§r is disabled.", <<cfg.prefix, finalCommandName>>)

\* line 100
disabledCommandMessage(cfg, finalCommandName) ==
    Msg("§cUnknown command: {0}{1}§r. Type {0}help for assistance.",
        <<cfg.prefix, finalCommandName>>)

\* a variant of line 109 with the comparison reversed
permissionDeniedReversed(userPermissionLevel, commandDef) ==
    userPermissionLevel < commandDef.permissionLevel

\* line 109: userPermissionLevel > commandDef.permissionLevel
permissionDenied(userPermissionLevel, commandDef) ==
    userPermissionLevel > commandDef.permissionLevel

\* line 110: playerUtils.warnPlayer(player, ...)
permissionDeniedMessage ==
    Msg("warnPlayer: You do not have permission to use this command.", <<>>)

\* lines 62-165
handleChatCommand(eventData, banTable, online, cfg, defs, execs, env) ==
    LET player == eventData.sender
        message == eventData.message
        tokens == split(trim(substring(message, cfg.prefix)))
        commandNameInput == toLowerCase(Head(tokens))
        args == Tail(tokens)
        r == Run0(banTable, online)
    IN
    IF commandNameInput = ""
    THEN Return([Send(r, player, missingCommandMessage(cfg))
                   EXCEPT !.cancel = TRUE], "missingName")
    ELSE
    LET aliasTarget == aliasLookup(cfg.commandAliases, commandNameInput) IN
    IF Truthy(aliasTarget) /\ aliasTarget.kind # "string"
    THEN Return(Throw(r, "TypeError"), "threw")   \* aliasTarget.toLowerCase is not a function
    ELSE
    LET finalCommandName == IF Truthy(aliasTarget) THEN toLowerCase(aliasTarget.val)
                            ELSE commandNameInput
    IN
    IF finalCommandName \notin DOMAIN defs \/ finalCommandName \notin DOMAIN execs
    THEN Return([Send(r, player, unknownCommandMessage(cfg, finalCommandName))
                   EXCEPT !.cancel = TRUE], "unknown")
    ELSE
    LET commandDef == defs[finalCommandName]
        userPermissionLevel == getPlayerPermissionLevel(player)
    IN
    IF ~isEffectivelyEnabled(commandDef, cfg, finalCommandName)
    THEN Return([Send(r, player, disabledCommandMessage(cfg, finalCommandName))
                   EXCEPT !.cancel = TRUE], "disabled")
    ELSE IF permissionDenied(userPermissionLevel, commandDef)
    THEN Return([Send(r, player, permissionDeniedMessage)
                   EXCEPT !.cancel = TRUE], "denied")
    ELSE dispatch(r, player, args, finalCommandName, execs[finalCommandName],
                  userPermissionLevel, cfg, env)

----------------------------------------------------------------------------
(* core/actionManager.js                                                   *)
(* A string built at run time is the sequence of its pieces (words,        *)
(* punctuation, single blanks); a template holds its placeholders, such as *)
(* "{playerName}", as pieces of their own.                                 *)

\* a violationDetails value: null, or an object with its entries in
\* insertion order; each value carries what String(value) gives
NullDetails == [kind |-> "null", entries |-> <<>>]

Details(entries) == [kind |-> "object", entries |-> entries]

Entry(key, type, str) == [key |-> key, value |-> [type |-> type, str |-> str]]

\* String(value)
String(value) == value.str

\* Array.prototype.join(separator) on strings given as piece sequences
RECURSIVE join(_, _)
join(strings, separator) ==
    IF strings = <<>> THEN <<>>
    ELSE IF Len(strings) = 1 THEN strings[1]
    ELSE strings[1] \o separator \o join(Tail(strings), separator)

\* a value that is no object: undefined, or a boolean, number, string or function
NotAnObject(type) == [kind |-> type, entries |-> <<>>]

\* an array: its elements are its properties "0", "1", ...
ArrayDetails(values) ==
    [kind |-> "array",
     entries |-> [i \in DOMAIN values |-> [key |-> ToString(i - 1), value |-> values[i]]]]

\* line 17: !violationDetails, for the kinds of value the model has (a falsy
\* boolean, number or string is no object either)
falsy(value) == value.kind \in {"null", "undefined"}

\* line 17: typeof violationDetails
typeof(value) == IF value.kind \in {"null", "object", "array"} THEN "object" ELSE value.kind

\* the integer a property key is the canonical text of, or -1
arrayIndex(key) ==
    CASE key = "0" -> 0 [] key = "1" -> 1 [] key = "2" -> 2 [] key = "10" -> 10
      [] OTHER -> -1

\* line 20: Object.entries lists the integer keys in ascending order, then
\* the other keys in the order they were added
ObjectEntries(value) ==
    SortSeq(SelectSeq(value.entries, LAMBDA e : arrayIndex(e.key) >= 0),
            LAMBDA a, b : arrayIndex(a.key) < arrayIndex(b.key))
    \o SelectSeq(value.entries, LAMBDA e : arrayIndex(e.key) < 0)

\* lines 16-23
formatViolationDetails(violationDetails) ==
    IF \/ falsy(violationDetails)
       \/ typeof(violationDetails) # "object"
       \/ Len(ObjectEntries(violationDetails)) = 0
    THEN <<"N/A">>
    ELSE join([i \in DOMAIN ObjectEntries(violationDetails) |->
                  LET e == ObjectEntries(violationDetails)[i]
                  IN  <<e.key, ":", " ">> \o <<String(e.value)>>],
              <<",", " ">>)

\* String.prototype.replace(/{name}/g, value): every occurrence, left to right
RECURSIVE replace(_, _, _)
replace(message, placeholder, value) ==
    IF message = <<>> THEN <<>>
    ELSE (IF Head(message) = placeholder THEN value ELSE <<Head(message)>>)
            \o replace(Tail(message), placeholder, value)

\* lines 46-53: one replacement per own key of violationDetails, in order
RECURSIVE replaceDetailKeys(_, _)
replaceDetailKeys(message, entries) ==
    IF entries = <<>> THEN message
    ELSE replaceDetailKeys(
            replace(message, "{" \o Head(entries).key \o "}", <<String(Head(entries).value)>>),
            Tail(entries))

\* lines 36-55; a falsy template is the empty sequence
formatActionMessage(template, playerName, checkType, violationDetails) ==
    IF template = <<>> THEN <<>>
    ELSE
    LET m1 == replace(template, "{playerName}", <<playerName>>)
        m2 == replace(m1, "{checkType}", <<checkType>>)
        m3 == replace(m2, "{detailsString}", formatViolationDetails(violationDetails))
    IN  IF violationDetails.kind = "object"
        THEN replaceDetailKeys(m3, violationDetails.entries)
        ELSE m3

\* obj.key is present (an own property with a value)
Has(obj, key) == key \in DOMAIN obj

\* config.checkActionProfiles (config.js): the profiles of this installation
checkActionProfiles ==
    [ fly_hover |->
        [enabled |-> TRUE,
         flag |-> [increment |-> 2, type |-> "movement_fly",
                   reason |-> <<"{playerName}", " ", "hovered", " ", "{detailsString}">>],
         log |-> [actionType |-> "detected_fly", detailsPrefix |-> <<"Fly:", " ">>],
         notifyAdmins |-> [message |-> <<"{playerName}", " ", "flagged", " ", "{checkType}",
                                         " ", "{value}">>]],
      speed_ground |->
        [enabled |-> FALSE,
         flag |-> [increment |-> 2, type |-> "movement_speed",
                   reason |-> <<"{playerName}", " ", "sped">>],
         log |-> [actionType |-> "detected_speed"],
         notifyAdmins |-> [message |-> <<"{playerName}", " ", "sped">>]],
      nuker |->
        [enabled |-> TRUE,
         flag |-> [reason |-> <<>>]],
      illegal_item |->
        [enabled |-> TRUE,
         log |-> [includeViolationDetails |-> FALSE, detailsPrefix |-> <<"Item", " ">>],
         notifyAdmins |-> [message |-> <<>>]] ]

\* the result of a lookup that finds nothing, and an inherited Object member
NoProfile == [undefined |-> TRUE]

InheritedMember == [inherited |-> TRUE]

\* line 82: config.checkActionProfiles[checkType] on an ordinary object
profileLookup(profiles, checkType) ==
    IF checkType \in DOMAIN profiles THEN profiles[checkType]
    ELSE IF checkType \in objectPrototypeKeys THEN InheritedMember
    ELSE NoProfile

\* the collaborators executeCheckAction reads from its dependencies (line 74):
\* a member is named with its owner, and is provided only with its owner
allCollaborators ==
    {"config", "config.checkActionProfiles",
     "playerDataManager", "playerDataManager.addFlag", "playerDataManager.getPlayerData",
     "playerUtils", "playerUtils.debugLog", "playerUtils.notifyAdmins",
     "logManager", "logManager.addLog"}

\* one detection: the arguments of a call of executeCheckAction
Detection(player, checkType, violationDetails, dependencies) ==
    [player |-> player, checkType |-> checkType,
     violationDetails |-> violationDetails, dependencies |-> dependencies]

\* a call of executeCheckAction: its arguments, its position, its locals and
\* what it has done so far
Task0(d) ==
    [pc |-> "running",          \* "idle", "running", "awaitFlag", "flagSettled", "done"
     in |-> d,
     profile |-> NoProfile,
     flagReasonMessage |-> <<>>,
     flagType |-> "", increment |-> 0, flagDetailsForAdminNotify |-> <<>>, i |-> 0,
     error |-> "none",
     flagCalls |-> <<>>,        \* playerDataManager.addFlag calls started
     flagsSettled |-> 0,        \* addFlag promises settled
     logged |-> <<>>,           \* logManager.addLog calls
     notified |-> <<>>,         \* playerUtils.notifyAdmins calls
     lookups |-> 0,             \* playerDataManager.getPlayerData calls
     stored |-> <<>>,           \* writes to pData.lastViolationDetailsMap
     debug |-> <<>>]            \* playerUtils.debugLog calls

IdleTask == [Task0(Detection(NullPlayer, "", NullDetails, {})) EXCEPT !.pc = "idle"]

\* a variant of the trace calls without the optional chaining
debugLogUnguarded(t, what) ==
    IF "playerUtils.debugLog" \in t.in.dependencies
    THEN [t EXCEPT !.debug = Append(@, what)]
    ELSE [t EXCEPT !.error = "TypeError"]

\* playerUtils?.debugLog?.(...)
debugLog(t, what) ==
    IF "playerUtils.debugLog" \in t.in.dependencies
    THEN [t EXCEPT !.debug = Append(@, what)]
    ELSE t

\* a variant of line 75 that reads the name of whatever it is given
playerNameOfPlayer(player) == player.nameTag

\* line 75
playerNameForLog(player) == IF player # NullPlayer THEN player.nameTag ELSE "System"

\* violationDetails?.itemTypeId, "" when there is none
itemTypeId(violationDetails) ==
    LET own == SelectSeq(violationDetails.entries, LAMBDA e : e.key = "itemTypeId")
    IN  IF own = <<>> THEN "" ELSE String(own[Len(own)].value)

\* playerDataManager.getPlayerData(id): undefined for a player without data
getPlayerData(pd, id) == IF id \in DOMAIN pd /\ pd[id].present THEN pd[id] ELSE [present |-> FALSE]

\* lines 120-136
handleLogging(t) ==
    LET d == t.in
        profile == t.profile
    IN  IF Has(profile, "log") /\ "logManager.addLog" \in d.dependencies
        THEN LET logActionType ==
                     IF Has(profile.log, "actionType") /\ profile.log.actionType # ""
                     THEN profile.log.actionType
                     ELSE "detected_" \o d.checkType
                 prefix == IF Has(profile.log, "detailsPrefix")
                           THEN profile.log.detailsPrefix ELSE <<>>
                 logDetailsString ==
                     IF Has(profile.log, "includeViolationDetails")
                        /\ profile.log.includeViolationDetails = FALSE
                     THEN prefix
                     ELSE prefix \o formatViolationDetails(d.violationDetails)
             IN  [t EXCEPT !.logged =
                     Append(@, [adminName |-> "System", actionType |-> logActionType,
                                targetName |-> playerNameForLog(d.player),
                                details |-> trim(logDetailsString),
                                reason |-> t.flagReasonMessage])]
        ELSE t

\* lines 138-149
handleAdminNotification(t, pd) ==
    LET d == t.in
        profile == t.profile
    IN  IF /\ Has(profile, "notifyAdmins") /\ Has(profile.notifyAdmins, "message")
           /\ profile.notifyAdmins.message # <<>>
           /\ "playerUtils.notifyAdmins" \in d.dependencies
        THEN LET notifyMsg == formatActionMessage(profile.notifyAdmins.message,
                                                  playerNameForLog(d.player), d.checkType,
                                                  d.violationDetails)
                 looksUp == d.player # NullPlayer
                            /\ "playerDataManager.getPlayerData" \in d.dependencies
                 pData == IF looksUp /\ getPlayerData(pd, d.player.id).present
                          THEN d.player.id ELSE "null"
             IN  [t EXCEPT !.lookups = IF looksUp THEN @ + 1 ELSE @,
                           !.notified = Append(@, [msg |-> notifyMsg, player |-> d.player.id,
                                                   pData |-> pData])]
        ELSE t

\* lines 151-169; at is Date.now()
storeViolationDetails(t, pd, at) ==
    LET d == t.in
        item == itemTypeId(d.violationDetails)
    IN  IF d.player # NullPlayer /\ "playerDataManager" \in d.dependencies /\ item # ""
        THEN IF "playerDataManager.getPlayerData" \in d.dependencies
             THEN IF getPlayerData(pd, d.player.id).present
                  THEN debugLog([t EXCEPT !.lookups = @ + 1,
                                          !.stored = Append(@, [id |-> d.player.id,
                                                                checkType |-> d.checkType,
                                                                itemTypeId |-> item,
                                                                timestamp |-> at])],
                                "storedItemTypeId")
                  ELSE debugLog([t EXCEPT !.lookups = @ + 1], "noPlayerData")
             ELSE debugLog(t, "noPlayerData")
        ELSE IF d.player = NullPlayer /\ item # ""
        THEN debugLog(t, "skippedStoreNullPlayer")
        ELSE t

\* lines 115-170: what follows the flag loop, to the end of the function
afterFlagging(t, pd, at) ==
    [storeViolationDetails(handleAdminNotification(handleLogging(t), pd), pd, at)
        EXCEPT !.pc = "done"]

\* line 113: the call of playerDataManager.addFlag, awaited
callAddFlag(t) ==
    [t EXCEPT !.pc = "awaitFlag",
              !.flagCalls = Append(@, [player |-> t.in.player.id, flagType |-> t.flagType,
                                       reason |-> t.flagReasonMessage,
                                       details |-> t.flagDetailsForAdminNotify,
                                       settledBefore |-> t.flagsSettled])]

\* lines 112-115: the loop test; after the last increment the trace and the rest
flagLoop(t, pd, at) ==
    IF t.i < t.increment
    THEN callAddFlag(t)
    ELSE afterFlagging(debugLog(t, "flagged"), pd, at)

\* lines 106-118
handleFlagging(t, pd, at) ==
    LET d == t.in
        profile == t.profile
    IN  IF /\ d.player # NullPlayer /\ Has(profile, "flag")
           /\ "playerDataManager.addFlag" \in d.dependencies
        THEN flagLoop([t EXCEPT
                         !.flagType = IF Has(profile.flag, "type") /\ profile.flag.type # ""
                                      THEN profile.flag.type ELSE d.checkType,
                         !.increment = IF Has(profile.flag, "increment")
                                       THEN profile.flag.increment ELSE 1,
                         !.flagDetailsForAdminNotify =
                             formatViolationDetails(d.violationDetails),
                         !.i = 0],
                      pd, at)
        ELSE IF d.player = NullPlayer /\ Has(profile, "flag")
        THEN afterFlagging(debugLog(t, "skippedFlagNullPlayer"), pd, at)
        ELSE afterFlagging(t, pd, at)

\* a variant of line 89 that takes every profile found as enabled
profileEnabledIgnored(profile) == TRUE

\* line 89: profile.enabled is truthy
profileEnabled(profile) == Has(profile, "enabled") /\ profile.enabled

\* lines 73-113: executeCheckAction from its call to its first suspension
executeCheckAction(d, pd, at) ==
    LET t == Task0(d) IN
    IF "config.checkActionProfiles" \notin d.dependencies
    THEN [debugLog(t, "noCheckActionProfiles") EXCEPT !.pc = "done"]
    ELSE
    LET profile == profileLookup(checkActionProfiles, d.checkType) IN
    IF profile = NoProfile
    THEN [debugLog(t, "noProfile") EXCEPT !.pc = "done"]
    ELSE IF ~profileEnabled(profile)
    THEN [debugLog(t, "disabled") EXCEPT !.pc = "done"]
    ELSE
    LET baseReasonTemplate ==
            IF Has(profile, "flag") /\ Has(profile.flag, "reason")
               /\ profile.flag.reason # <<>>
            THEN profile.flag.reason
            ELSE <<"Triggered", " ", d.checkType>>
        flagReasonMessage == formatActionMessage(baseReasonTemplate,
                                                 playerNameForLog(d.player), d.checkType,
                                                 d.violationDetails)
    IN  handleFlagging([t EXCEPT !.profile = profile,
                                 !.flagReasonMessage = flagReasonMessage],
                       pd, at)

\* a variant of the await of line 113 that goes on before addFlag has settled
addFlagAwaitedUnsettled(t) == t.pc \in {"awaitFlag", "flagSettled"}

\* line 113: the await lets the function go on once addFlag's promise has settled
addFlagAwaited(t) == t.pc = "flagSettled"

\* lines 112-114: the loop goes on after the await: i++, then the loop test
resumeAfterFlag(t, pd, at) == flagLoop([t EXCEPT !.i = @ + 1, !.pc = "running"], pd, at)

\* playerDataManager.addFlag (playerDataManager.js): one more flag of that type
\* for a player who has data; a player without data is left alone
addFlag(pd, id, flagType) ==
    IF getPlayerData(pd, id).present
    THEN [pd EXCEPT ![id].flags[flagType] = @ + 1, ![id].isDirtyForSave = TRUE]
    ELSE pd

\* lines 155-162: the writes to pData of a call that has just ended
RECURSIVE applyStored(_, _)
applyStored(pd, stored) ==
    IF stored = <<>> THEN pd
    ELSE LET s == Head(stored)
         IN  applyStored([pd EXCEPT ![s.id].lastViolationDetailsMap[s.checkType] =
                                        [itemTypeId |-> s.itemTypeId,
                                         timestamp |-> s.timestamp],
                                    ![s.id].isDirtyForSave = TRUE],
                         Tail(stored))

\* the check types the detection layer reports, one of them without a profile
\* and one that names a member every object inherits
CheckTypes ==
    {"fly_hover", "speed_ground", "nuker", "illegal_item", "unknown_check", "constructor"}

FlagTypes == {"movement_fly", "movement_speed", "nuker", "fly_hover", "illegal_item"}

NoViolationDetails == [itemTypeId |-> "", timestamp |-> -1]

\* the player data store: Alice has data, Adam's is not loaded
InitPlayerData ==
    [id \in {Adam.id, Alice.id} |->
        [present |-> id # Adam.id,
         flags |-> [ft \in FlagTypes |-> 0],
         lastViolationDetailsMap |-> [ct \in CheckTypes |-> NoViolationDetails],
         isDirtyForSave |-> FALSE]]

ValueDetails == Details(<<Entry("value", "number", "5"), Entry("threshold", "number", "2")>>)

ItemDetails ==
    Details(<<Entry("itemTypeId", "string", "minecraft:tnt"), Entry("value", "number", "5")>>)

DetailsValues == {NullDetails, Details(<<>>), ValueDetails, ItemDetails}

\* property keys and values a details object may be built from
DetailKeys == {"value", "threshold", "2", "10"}

DetailValues == {[type |-> "number", str |-> "5"], [type |-> "string", str |-> "tnt"]}

\* the sequences over a set, without repetition, up to a length
RECURSIVE Arrangements(_, _)
Arrangements(S, n) ==
    IF n = 0 THEN {<<>>}
    ELSE LET shorter == Arrangements(S, n - 1)
         IN  shorter \cup UNION { {Append(a, k) : k \in S \ {a[i] : i \in DOMAIN a}} :
                                  a \in {b \in shorter : Len(b) = n - 1} }

\* what formatViolationDetails may be given: nothing, values that are no
\* object, arrays, and objects of up to MaxEntries properties in every order
\* of insertion
FormatInputs ==
    {NullDetails}
    \cup {NotAnObject(t) : t \in {"undefined", "boolean", "number", "string", "function"}}
    \cup {ArrayDetails(vs) : vs \in {<<>>} \cup {<<v>> : v \in DetailValues}
                                    \cup {<<v, w>> : v, w \in DetailValues}}
    \cup UNION { {Details([i \in DOMAIN keys |-> [key |-> keys[i], value |-> values[i]]]) :
                     values \in [DOMAIN keys -> DetailValues]} :
                  keys \in Arrangements(DetailKeys, MaxEntries) }

\* the members each manager of the dependencies carries
membersOf ==
    [config |-> {"config.checkActionProfiles"},
     playerDataManager |-> {"playerDataManager.addFlag", "playerDataManager.getPlayerData"},
     playerUtils |-> {"playerUtils.debugLog", "playerUtils.notifyAdmins"},
     logManager |-> {"logManager.addLog"}]

\* the dependencies with one collaborator missing, or one manager with its members
Without(collaborator) ==
    allCollaborators
        \ ({collaborator} \cup (IF collaborator \in DOMAIN membersOf
                                 THEN membersOf[collaborator] ELSE {}))

PartialDependencies == {Without(collaborator) : collaborator \in allCollaborators}

\* the detections of the sequential specification: every actor, check type and
\* details value with all collaborators, and the fully configured and the
\* disabled profile with each collaborator missing
Detections ==
    { Detection(p, ct, vd, allCollaborators) :
        p \in {NullPlayer, Alice}, ct \in CheckTypes, vd \in DetailsValues }
    \cup
    { Detection(Adam, ct, ItemDetails, allCollaborators) : ct \in {"fly_hover", "nuker"} }
    \cup
    { Detection(p, ct, ItemDetails, deps) :
        p \in {NullPlayer, Alice}, ct \in {"fly_hover", "speed_ground"},
        deps \in PartialDependencies }

\* the detections of the concurrent specification: flagging profiles only
FlagDetections ==
    { Detection(p, ct, ValueDetails, allCollaborators) :
        p \in {Alice, Adam}, ct \in {"fly_hover", "nuker"} }

Handlers == 1..MaxHandlers

ActionIdle ==
    /\ tasks = [h \in Handlers |-> IdleTask]
    /\ playerData = InitPlayerData
    /\ formatted = [op |-> "none", in |-> NullDetails, out |-> <<>>]

\* the flag counters stay within the model's bound
FlagsBelowBound(player) ==
    getPlayerData(playerData, player.id).present =>
        \A ft \in FlagTypes : playerData[player.id].flags[ft] < MaxFlags

\* the world after a step of a call: its writes to pData once it has ended
AfterStep(t, pd) == IF t.pc = "done" THEN applyStored(pd, t.stored) ELSE pd

\* a check reports a violation: executeCheckAction is called and runs to its
\* first suspension, or to its end
Detect(h, detections) ==
    \E d \in detections :
        /\ tasks[h].pc \in {"idle", "done"}
        /\ FlagsBelowBound(d.player)
        /\ LET t == executeCheckAction(d, playerData, now)
           IN  /\ tasks' = [tasks EXCEPT ![h] = t]
               /\ playerData' = AfterStep(t, playerData)
        /\ UNCHANGED <<gatewayVars, reportVars, formatted>>

\* some caller formats a violation details value
FormatViolationDetails ==
    /\ \E violationDetails \in FormatInputs :
          formatted' = [op |-> "formatViolationDetails", in |-> violationDetails,
                        out |-> formatViolationDetails(violationDetails)]
    /\ UNCHANGED <<gatewayVars, reportVars, tasks, playerData>>

\* the promise of the pending addFlag call settles: the flag is counted
AddFlagSettles(h) ==
    /\ tasks[h].pc = "awaitFlag"
    /\ Len(tasks[h].flagCalls) > tasks[h].flagsSettled
    /\ tasks' = [tasks EXCEPT ![h].pc = "flagSettled", ![h].flagsSettled = @ + 1]
    /\ playerData' = addFlag(playerData, tasks[h].in.player.id, tasks[h].flagType)
    /\ UNCHANGED <<gatewayVars, reportVars, formatted>>

\* the call goes on after its await
ResumeAfterFlag(h) ==
    /\ addFlagAwaited(tasks[h])
    /\ LET t == resumeAfterFlag(tasks[h], playerData, now)
       IN  /\ tasks' = [tasks EXCEPT ![h] = t]
           /\ playerData' = AfterStep(t, playerData)
    /\ UNCHANGED <<gatewayVars, reportVars, formatted>>

----------------------------------------------------------------------------
(* core/reportManager.js                                                   *)
(* A report entry is an object: the cache and every array a caller holds   *)
(* refer to it by reference, and `objects` maps a reference to its fields. *)
(* The backing key holds undefined, a non-string, or a string; a string    *)
(* written by JSON.stringify is kept as the JSON text's structure.         *)

\* line 185
maxReportsCount == 100

\* the fields of a ReportEntry, in the order addReport writes them (lines 293-301)
reportKeys ==
    <<"id", "timestamp", "reporterId", "reporterName", "reportedId", "reportedName",
      "reason">>

\* a JSON literal: a string or a number
JsonString(s) == [t |-> "string", s |-> s, n |-> 0]

JsonNumber(n) == [t |-> "number", s |-> "", n |-> n]

\* the JSON literal of a field's value: timestamp is the only number
toJson(key, value) == IF key = "timestamp" THEN JsonNumber(value) ELSE JsonString(value)

fromJson(literal) == IF literal.t = "number" THEN literal.n ELSE literal.s

\* JSON.stringify of one entry: its own fields as key/literal pairs, in order
stringifyEntry(entry) ==
    LET own == SelectSeq(reportKeys, LAMBDA k : k \in DOMAIN entry)
    IN  [i \in DOMAIN own |-> [key |-> own[i], literal |-> toJson(own[i], entry[own[i]])]]

\* JSON.parse of one object: a later pair for a key wins
parseEntry(pairs) ==
    [k \in {pairs[i].key : i \in DOMAIN pairs} |->
        LET last_i == CHOOSE i \in DOMAIN pairs :
                        /\ pairs[i].key = k
                        /\ \A j \in DOMAIN pairs : pairs[j].key = k => j <= i
        IN  fromJson(pairs[last_i].literal)]

\* the values the backing key can hold
NoProperty == [kind |-> "undefined", json |-> "", elements |-> <<>>]

NumberProperty == [kind |-> "number", json |-> "", elements |-> <<>>]

\* a string that is not JSON, and the JSON text of a value that is no array
TextProperty == [kind |-> "string", json |-> "invalid", elements |-> <<>>]

ObjectProperty == [kind |-> "string", json |-> "object", elements |-> <<>>]

\* the JSON text of an array of objects
ArrayProperty(elements) == [kind |-> "string", json |-> "array", elements |-> elements]

\* the entries an array of references stands for
Content(refs, heap) == [i \in DOMAIN refs |-> heap[refs[i]]]

\* line 258: JSON.stringify(reportsInMemory)
stringify(refs, heap) ==
    ArrayProperty([i \in DOMAIN refs |-> stringifyEntry(heap[refs[i]])])

\* references not in use
FreshRefs(heap, n) ==
    LET top == IF DOMAIN heap = {} THEN 0
               ELSE CHOOSE r \in DOMAIN heap : \A q \in DOMAIN heap : q <= r
    IN  [i \in 1..n |-> top + i]

\* lines 226-234: JSON.parse(rawReports) makes new objects, one per element
parseArray(property, heap) ==
    LET refs == FreshRefs(heap, Len(property.elements))
    IN  [refs |-> refs,
         heap |-> [r \in DOMAIN heap \cup {refs[i] : i \in DOMAIN refs} |->
                      IF r \in DOMAIN heap THEN heap[r]
                      ELSE parseEntry(property.elements[r - (refs[1] - 1)])]]

\* the state of the module: its two variables, the store and the objects
Cache(refs, dirty, property, heap) ==
    [reportsInMemory |-> refs, reportsAreDirty |-> dirty,
     dynamicProperty |-> property, objects |-> heap]

\* a variant of lines 223-241 that marks a cache it had to start empty as dirty
initializeReportCacheMarksDirty(property, readThrows) ==
    IF ~readThrows /\ property.kind = "string" /\ property.json = "array"
    THEN LET parsed == parseArray(property, <<>>)
         IN  Cache(parsed.refs, FALSE, property, parsed.heap)
    ELSE Cache(<<>>, TRUE, property, <<>>)

\* lines 223-241: initializeReportCache, where reading the key may throw
initializeReportCache(property, readThrows) ==
    IF readThrows THEN Cache(<<>>, FALSE, property, <<>>)
    ELSE IF property.kind = "string" /\ property.json = "array"
    THEN LET parsed == parseArray(property, <<>>)
         IN  Cache(parsed.refs, FALSE, property, parsed.heap)
    ELSE Cache(<<>>, FALSE, property, <<>>)

\* a variant of lines 252-266 that leaves the dirty flag set after a write
persistKeepsFlag(c, writeFails) ==
    IF ~c.reportsAreDirty /\ c.dynamicProperty.kind # "undefined"
    THEN [cache |-> c, result |-> TRUE, wrote |-> "none"]
    ELSE IF writeFails
    THEN [cache |-> c, result |-> FALSE, wrote |-> "failed"]
    ELSE [cache |-> [c EXCEPT !.dynamicProperty = stringify(c.reportsInMemory, c.objects)],
          result |-> TRUE, wrote |-> "written"]

\* a variant of lines 252-266 that clears the dirty flag before the write
persistClearsFirst(c, writeFails) ==
    IF ~c.reportsAreDirty /\ c.dynamicProperty.kind # "undefined"
    THEN [cache |-> c, result |-> TRUE, wrote |-> "none"]
    ELSE IF writeFails
    THEN [cache |-> [c EXCEPT !.reportsAreDirty = FALSE], result |-> FALSE,
          wrote |-> "failed"]
    ELSE [cache |-> [c EXCEPT !.dynamicProperty = stringify(c.reportsInMemory, c.objects),
                              !.reportsAreDirty = FALSE],
          result |-> TRUE, wrote |-> "written"]

\* lines 252-266: persistReportsToDisk, where the store may refuse the write
persistReportsToDisk(c, writeFails) ==
    IF ~c.reportsAreDirty /\ c.dynamicProperty.kind # "undefined"
    THEN [cache |-> c, result |-> TRUE, wrote |-> "none"]
    ELSE IF writeFails
    THEN [cache |-> c, result |-> FALSE, wrote |-> "failed"]
    ELSE [cache |-> [c EXCEPT !.dynamicProperty = stringify(c.reportsInMemory, c.objects),
                              !.reportsAreDirty = FALSE],
          result |-> TRUE, wrote |-> "written"]

\* lines 272-275: getReports, a new array of the same objects
getReports(c) == c.reportsInMemory

\* the pieces of a string, joined
RECURSIVE concat(_)
concat(pieces) == IF pieces = <<>> THEN "" ELSE Head(pieces) \o concat(Tail(pieces))

\* a variant of lines 303-307 that truncates only after the cap was passed by two
truncateLate(refs) ==
    IF Len(refs) > maxReportsCount + 1 THEN SubSeq(refs, 1, maxReportsCount) ELSE refs

\* lines 305-307: reportsInMemory.length = maxReportsCount
truncate(refs) ==
    IF Len(refs) > maxReportsCount THEN SubSeq(refs, 1, maxReportsCount) ELSE refs

\* the objects still referred to by the cache
Live(heap, refs) == [r \in {refs[i] : i \in DOMAIN refs} |-> heap[r]]

\* a variant of lines 286-314 that does not mark the cache dirty
addReportUnmarked(c, reporterPlayer, reportedPlayer, reason, generated, at) ==
    IF reporterPlayer = NullPlayer \/ reportedPlayer = NullPlayer \/ reason = <<>>
    THEN [cache |-> c, result |-> "null"]
    ELSE
    LET newReport == [id |-> generated, timestamp |-> at,
                      reporterId |-> reporterPlayer.id,
                      reporterName |-> reporterPlayer.nameTag,
                      reportedId |-> reportedPlayer.id,
                      reportedName |-> reportedPlayer.nameTag,
                      reason |-> concat(trim(reason))]
        ref == FreshRefs(c.objects, 1)[1]
        heap == [r \in DOMAIN c.objects \cup {ref} |->
                    IF r = ref THEN newReport ELSE c.objects[r]]
        refs == truncate(<<ref>> \o c.reportsInMemory)
    IN  [cache |-> [c EXCEPT !.reportsInMemory = refs, !.objects = Live(heap, refs)],
         result |-> generated]

\* lines 286-314: addReport; generated stands for generateReportId() and at for
\* Date.now()
addReport(c, reporterPlayer, reportedPlayer, reason, generated, at) ==
    IF \/ reporterPlayer = NullPlayer \/ reporterPlayer.id = "" \/ reporterPlayer.nameTag = ""
       \/ reportedPlayer = NullPlayer \/ reportedPlayer.id = "" \/ reportedPlayer.nameTag = ""
       \/ reason = <<>>
    THEN [cache |-> c, result |-> "null"]
    ELSE
    LET newReport == [id |-> generated, timestamp |-> at,
                      reporterId |-> reporterPlayer.id,
                      reporterName |-> reporterPlayer.nameTag,
                      reportedId |-> reportedPlayer.id,
                      reportedName |-> reportedPlayer.nameTag,
                      reason |-> concat(trim(reason))]
        ref == FreshRefs(c.objects, 1)[1]
        heap == [r \in DOMAIN c.objects \cup {ref} |->
                    IF r = ref THEN newReport ELSE c.objects[r]]
        refs == truncate(<<ref>> \o c.reportsInMemory)
    IN  [cache |-> [c EXCEPT !.reportsInMemory = refs,
                             !.objects = Live(heap, refs),
                             !.reportsAreDirty = TRUE],
         result |-> generated]

\* a variant of lines 320-325 that leaves the write to the next periodic save
clearAllReportsDeferred(c, writeFails) ==
    [cache |-> [c EXCEPT !.reportsInMemory = <<>>,
                         !.objects = Live(c.objects, <<>>),
                         !.reportsAreDirty = TRUE],
     result |-> TRUE, wrote |-> "none"]

\* lines 320-325: clearAllReports
clearAllReports(c, writeFails) ==
    persistReportsToDisk([c EXCEPT !.reportsInMemory = <<>>,
                                   !.objects = Live(c.objects, <<>>),
                                   !.reportsAreDirty = TRUE],
                         writeFails)

\* a variant of lines 333-343 that marks the cache dirty and persists whether
\* or not an entry was removed
clearReportByIdAlwaysPersists(c, reportId, writeFails) ==
    LET refs == SelectSeq(c.reportsInMemory, LAMBDA r : c.objects[r].id # reportId)
        p == persistReportsToDisk([c EXCEPT !.reportsInMemory = refs,
                                            !.objects = Live(c.objects, refs),
                                            !.reportsAreDirty = TRUE],
                                  writeFails)
    IN  IF Len(refs) < Len(c.reportsInMemory) THEN p
        ELSE [cache |-> p.cache, result |-> FALSE, wrote |-> p.wrote]

\* lines 333-343: clearReportById
clearReportById(c, reportId, writeFails) ==
    LET initialCount == Len(c.reportsInMemory)
        refs == SelectSeq(c.reportsInMemory, LAMBDA r : c.objects[r].id # reportId)
    IN  IF Len(refs) < initialCount
        THEN persistReportsToDisk([c EXCEPT !.reportsInMemory = refs,
                                            !.objects = Live(c.objects, refs),
                                            !.reportsAreDirty = TRUE],
                                  writeFails)
        ELSE [cache |-> [c EXCEPT !.reportsInMemory = refs], result |-> FALSE,
              wrote |-> "none"]

\* an entry a previous run of the server persisted
oldEntry(i) ==
    [id |-> "old" \o ToString(i), timestamp |-> 0, reporterId |-> Alice.id,
     reporterName |-> Alice.nameTag, reportedId |-> Adam.id,
     reportedName |-> Adam.nameTag, reason |-> "griefing"]

oldArray(n) == ArrayProperty([i \in 1..n |-> stringifyEntry(oldEntry(i))])

\* what the backing key may hold when the module loads: nothing, a non-string,
\* text that is not JSON, JSON that is no array, and arrays of entries
BackingContents ==
    {NoProperty, NumberProperty, TextProperty, ObjectProperty, oldArray(0), oldArray(2)}

\* the same, and an array longer than the cap
RestartContents == BackingContents \cup {oldArray(maxReportsCount + 1)}

\* a player object without a name tag
Nameless == Player("p9", "", permissionLevels.normal)

\* the arguments of addReport: (reporterPlayer, reportedPlayer, reason)
ReportInputs ==
    { <<Alice, Adam, <<" ", "griefing", " ">> >>, <<Adam, Alice, <<" ">> >>,
      <<NullPlayer, Adam, <<"griefing">> >>, <<Alice, Nameless, <<"griefing">> >>,
      <<Alice, Adam, <<>> >> }

FillInputs == { <<Alice, Adam, <<" ", "griefing", " ">> >>, <<Alice, Adam, <<>> >> }

CacheNow == Cache(reportsInMemory, reportsAreDirty, dynamicProperty, objects)

SetCache(c) ==
    /\ reportsInMemory' = c.reportsInMemory
    /\ reportsAreDirty' = c.reportsAreDirty
    /\ dynamicProperty' = c.dynamicProperty
    /\ objects' = c.objects

\* the module has just been loaded: lines 202, 208 and 244-246
ReportsLoaded(property, readThrows) ==
    LET c == initializeReportCache(property, readThrows)
    IN  /\ reportsInMemory = c.reportsInMemory
        /\ reportsAreDirty = c.reportsAreDirty
        /\ dynamicProperty = c.dynamicProperty
        /\ objects = c.objects
        /\ heldReports = <<>>
        /\ reportsAdded = <<>>
        /\ reportLast = [op |-> "initializeReportCache", result |-> TRUE,
                         returned |-> "", wrote |-> "none",
                         reportId |-> "", readThrows |-> readThrows,
                         unread |-> readThrows]

\* unread: the key's content was neither read at load nor written since
Unread(wrote) == reportLast.unread /\ wrote # "written"

Did(op, result, wrote) ==
    reportLast' = [op |-> op, result |-> result, returned |-> "", wrote |-> wrote, reportId |-> "", readThrows |-> FALSE, unread |-> Unread(wrote)]

\* the same for clearReportById, with the id it was given
DidClear(reportId, result, wrote) ==
    reportLast' = [op |-> "clearReportById", result |-> result, returned |-> "", wrote |-> wrote, reportId |-> reportId, readThrows |-> FALSE, unread |-> Unread(wrote)]

\* the same for a call that returns a string, or null
Returned(op, value) ==
    reportLast' = [op |-> op, result |-> value # "null", returned |-> value, wrote |-> "none", reportId |-> "", readThrows |-> FALSE, unread |-> Unread("none")]

\* a player files a report; at most `bound` reports are accepted in a behaviour
AddReport(inputs, bound) ==
    \E in \in inputs :
        LET n == Len(reportsAdded) + 1
            r == addReport(CacheNow, in[1], in[2], in[3], "r" \o ToString(n), n)
        IN  /\ Len(reportsAdded) < bound
            /\ SetCache(r.cache)
            /\ reportsAdded' = IF r.result = "null" THEN reportsAdded
                               ELSE Append(reportsAdded, r.result)
            /\ Returned("addReport", r.result)
            /\ heldReports' = <<>>
            /\ UNCHANGED <<gatewayVars, actionVars>>

\* the periodic save, or any caller, persists the cache; the store may refuse
Persist(writeFails) ==
    LET r == persistReportsToDisk(CacheNow, writeFails)
    IN  /\ SetCache(r.cache)
        /\ Did("persistReportsToDisk", r.result, r.wrote)
        /\ heldReports' = <<>>
        /\ UNCHANGED <<reportsAdded, gatewayVars, actionVars>>

PersistReportsToDisk == \E writeFails \in BOOLEAN : Persist(writeFails)

ClearAllReports ==
    \E writeFails \in BOOLEAN :
        LET r == clearAllReports(CacheNow, writeFails)
        IN  /\ SetCache(r.cache)
            /\ Did("clearAllReports", r.result, r.wrote)
            /\ heldReports' = <<>>
            /\ UNCHANGED <<reportsAdded, gatewayVars, actionVars>>

\* the ids a caller may name: those of the first and the last entry, and one
\* that no entry has
KnownIds ==
    {"r0"} \cup (IF reportsInMemory = <<>> THEN {}
                 ELSE {objects[reportsInMemory[1]].id,
                       objects[reportsInMemory[Len(reportsInMemory)]].id})

ClearReportById ==
    \E reportId \in KnownIds, writeFails \in BOOLEAN :
        LET r == clearReportById(CacheNow, reportId, writeFails)
        IN  /\ SetCache(r.cache)
            /\ DidClear(reportId, r.result, r.wrote)
            /\ heldReports' = <<>>
            /\ UNCHANGED <<reportsAdded, gatewayVars, actionVars>>

Reverse(s) == [i \in DOMAIN s |-> s[Len(s) + 1 - i]]

\* what a caller may do with the array getReports gave it: nothing, empty it,
\* add an element, reorder it, or write a field of its first element
CallerMutations == {"none", "length = 0", "push", "reverse", "reason ="}

\* a caller reads the reports (lines 272-275) and uses the array it got;
\* heldReports is that array when the caller is done with it
GetReports ==
    \E mutation \in CallerMutations :
        LET copy == getReports(CacheNow)
        IN  /\ mutation \in {"reverse", "reason ="} => copy # <<>>
            /\ heldReports' =
                 CASE mutation = "length = 0" -> <<>>
                   [] mutation = "push" -> Append(copy, 0)
                   [] mutation = "reverse" -> Reverse(copy)
                   [] OTHER -> copy
            /\ objects' = IF mutation = "reason ="
                          THEN [objects EXCEPT ![copy[1]].reason = "edited"]
                          ELSE objects
            /\ Returned("getReports", mutation)
            /\ UNCHANGED <<reportsInMemory, reportsAreDirty, dynamicProperty,
                           reportsAdded, gatewayVars, actionVars>>

----------------------------------------------------------------------------
(* The state machine                                                       *)

NoAliases == [defined |-> FALSE, own |-> EmptyMap]
NoSettings == [defined |-> FALSE, own |-> EmptyMap]

\* config.js: the configurations a server may run with
Configs ==
    { [prefix |-> "!", commandAliases |-> a, commandSettings |-> s] :
        a \in { NoAliases,
                [defined |-> TRUE, own |-> [k \in {"b"} |-> "Ban"]] },
        s \in { NoSettings,
                [defined |-> TRUE,
                 own |-> [k \in {"ban"} |-> [hasEnabled |-> TRUE, enabled |-> FALSE]]],
                [defined |-> TRUE,
                 own |-> [k \in {"vanish", "help"} |->
                             IF k = "vanish" THEN [hasEnabled |-> TRUE, enabled |-> TRUE]
                             ELSE [hasEnabled |-> FALSE, enabled |-> FALSE]]] } }

\* chat messages that begin with the prefix, as pieces
Messages ==
    { <<"!">>, <<"!", " ">>,
      <<"!", "ban">>,
      <<"!", "ban", " ", "Alice", " ", "7d", " ", "griefing">>,
      <<"!", " ", "BAN", " ", " ", "Alice", " ", "1h", " ">>,
      <<"!", "b", " ", "Alice", " ", "7d", " ", "griefing">>,
      <<"!", "ban", " ", "Olga">>,
      <<"!", "help">>,
      <<"!", "vanish">>,
      <<"!", "panel">>,
      <<"!", "fly">>,
      <<"!", "constructor">> }

\* argument lists of a direct call of the ban executor
ArgLists ==
    { <<>>, <<"Alice">>, <<"Alice", "7d", "griefing">>, <<"Olga", "1h">>,
      <<"Oscar", "perm", "abuse", "of", "power">>, <<"Adam", "7d">>,
      <<"Alice", "0d">>, <<"Alice", "-1h">>, <<"Alice", "soon">>, <<"Ghost", "7d">> }

\* types.js CommandDependencies, as the callers of an executor build it; the
\* log store and the notifier may be missing
requiredDependencies ==
    {"config", "playerUtils", "playerDataManager", "findPlayer", "parseDuration",
     "getPlayerPermissionLevel"}

fullDependencies == requiredDependencies \cup {"addLog", "playerUtils.notifyAdmins"}

\* (invokedBy, isAutoModAction, autoModCheckType) of a direct call
Invocations ==
    { <<"PlayerCommand", FALSE, "">>, <<"AutoMod", TRUE, "fly_hover">>,
      <<"AutoMod", TRUE, "">>, <<"PlayerCommand", TRUE, "fly_hover">> }

\* who calls the ban executor directly, and how
Callers ==
    ({NullPlayer} \X Invocations)
        \cup ({Olga, Adam, Alice} \X {<<"PlayerCommand", FALSE, "">>})
        \cup {<<Adam, <<"AutoMod", TRUE, "fly_hover">> >>}

\* the bundle passed, whether addBan succeeds, whether kick throws, and
\* config.enableDebugLogging
Circumstances ==
    { <<fullDependencies, TRUE, FALSE, FALSE>>, <<fullDependencies, TRUE, TRUE, FALSE>>,
      <<fullDependencies, TRUE, TRUE, TRUE>>,
      <<fullDependencies, FALSE, FALSE, FALSE>>, <<requiredDependencies, TRUE, FALSE, FALSE>> }

Env(addBanOk, kickThrows, executorThrows) ==
    [now |-> now, addBanOk |-> addBanOk, kickThrows |-> kickThrows,
     executorThrows |-> executorThrows]

banTableOf(flags) == [id \in DOMAIN flags |-> IF flags[id] THEN EarlierBan ELSE NoBan]

NoInput ==
    [player |-> NullPlayer, message |-> <<>>, args |-> <<>>, dependencies |-> {},
     invokedBy |-> "", isAutoModAction |-> FALSE, autoModCheckType |-> "",
     enableDebugLogging |-> FALSE,
     env |-> [now |-> 0, addBanOk |-> FALSE, kickThrows |-> FALSE,
              executorThrows |-> FALSE]]

\* the world a run starts in: who is banned, who is connected (by name), the log
World ==
    [bans |-> bans, connected |-> {p.nameTag : p \in connected}, auditLog |-> auditLog]

\* what a run did, without the world it leaves (the variables hold that)
Observation(r) == [f \in DOMAIN r \ {"bans", "connected"} |-> r[f]]

InitWorld ==
    /\ connected = Players
    /\ bans = [id \in {p.id : p \in Players} |-> FALSE]
    /\ auditLog = <<>>
    /\ now = 0
    /\ last = [op |-> "none", in |-> NoInput, pre |-> World,
               run |-> Observation(Run0(banTableOf(bans), connected))]
    /\ ActionIdle
    /\ ReportsLoaded(NoProperty, FALSE)

\* lines 26-50 of commandManager.js: the maps after the registration loop
InitCommands(commandModules) ==
    LET maps == registerCommands(commandModules, 1, [defs |-> EmptyMap, execs |-> EmptyMap])
    IN  /\ commandDefinitionMap = maps.defs
        /\ commandExecutionMap = maps.execs

Init ==
    /\ \E commandModules \in commandModuleLists : InitCommands(commandModules)
    /\ config \in Configs
    /\ InitWorld

\* the world after a run, and the record of the run
Commit(op, input, r) ==
    /\ bans' = [id \in DOMAIN bans |-> r.bans[id].banned]
    /\ connected' = r.connected
    /\ auditLog' = auditLog \o [i \in 1..Len(r.logged) |-> r.logged[i].actionType]
    /\ last' = [op |-> op, in |-> input, pre |-> World, run |-> Observation(r)]
    /\ UNCHANGED <<actionVars, reportVars>>

\* the host delivers a chat message that begins with the prefix
ChatSend ==
    \E sender \in connected, message \in Messages, executorThrows \in BOOLEAN :
        LET env == Env(TRUE, FALSE, executorThrows)
            eventData == [sender |-> sender, message |-> message]
            r == handleChatCommand(eventData, banTableOf(bans), connected, config,
                                   commandDefinitionMap, commandExecutionMap, env)
        IN  /\ Commit("handleChatCommand",
                      [NoInput EXCEPT !.player = sender, !.message = message, !.env = env],
                      r)
            /\ UNCHANGED <<commandDefinitionMap, commandExecutionMap, config, now>>

\* the automation layer, or another module, calls the ban executor
BanExecute ==
    \E caller \in Callers, args \in ArgLists, c \in Circumstances :
        LET player == caller[1]
            inv == caller[2]
            env == Env(c[2], c[3], FALSE)
            dependencies == [keys |-> c[1],
                             config |-> [prefix |-> config.prefix,
                                         enableDebugLogging |-> c[4]]]
            r == Return(execute(Run0(banTableOf(bans), connected), player, args,
                                dependencies, inv[1], inv[2], inv[3], env),
                        "execute")
        IN  /\ now < MaxEvents
            /\ player \in connected \cup {NullPlayer}
            /\ now' = now + 1
            /\ Commit("execute",
                      [NoInput EXCEPT !.player = player, !.args = args,
                                      !.dependencies = c[1], !.invokedBy = inv[1],
                                      !.isAutoModAction = inv[2],
                                      !.autoModCheckType = inv[3],
                                      !.enableDebugLogging = c[4], !.env = env],
                      r)
            /\ UNCHANGED <<commandDefinitionMap, commandExecutionMap, config>>

\* the command gateway: chat messages under every configuration
Next == ChatSend

Spec == Init /\ [][Next]_vars

\* the ban executor, called directly, under one configuration
InitBan ==
    /\ InitCommands(<<banModule, helpModule, vanishModule, panelModule>>)
    /\ config = [prefix |-> "!", commandAliases |-> NoAliases, commandSettings |-> NoSettings]
    /\ InitWorld

NextBan == BanExecute

SpecBan == InitBan /\ [][NextBan]_vars

\* the action engine, one call at a time, under every detection
NextAction ==
    \/ Detect(1, Detections)
    \/ AddFlagSettles(1)
    \/ ResumeAfterFlag(1)

SpecAction == InitBan /\ [][NextAction]_vars

\* the action engine with several calls in progress
NextFlags ==
    \E h \in Handlers :
        \/ Detect(h, FlagDetections)
        \/ AddFlagSettles(h)
        \/ ResumeAfterFlag(h)

SpecFlags == InitBan /\ [][NextFlags]_vars

\* the formatter alone, called with any value
NextFormat == FormatViolationDetails

SpecFormat == InitBan /\ [][NextFormat]_vars

\* the gateway and the action engine at rest
InitOthers ==
    /\ InitCommands(<<banModule, helpModule, vanishModule, panelModule>>)
    /\ config = [prefix |-> "!", commandAliases |-> NoAliases, commandSettings |-> NoSettings]
    /\ connected = Players
    /\ bans = [id \in {p.id : p \in Players} |-> FALSE]
    /\ auditLog = <<>>
    /\ now = 0
    /\ last = [op |-> "none", in |-> NoInput, pre |-> World,
               run |-> Observation(Run0(banTableOf(bans), connected))]
    /\ ActionIdle

\* the report cache, loaded from any content of the backing key
InitReports ==
    /\ InitOthers
    /\ \E property \in BackingContents, readThrows \in BOOLEAN :
          ReportsLoaded(property, readThrows)

NextReports ==
    \/ AddReport(ReportInputs, MaxReports)
    \/ PersistReportsToDisk
    \/ ClearAllReports
    \/ ClearReportById
    \/ GetReports

SpecReports == InitReports /\ [][NextReports]_vars

\* the report cache filled from empty
InitFill == InitOthers /\ ReportsLoaded(NoProperty, FALSE)

NextFill == AddReport(FillInputs, MaxAdds)

SpecFill == InitFill /\ [][NextFill]_vars

\* the report cache after a restart of the server, carrying on
InitRestart ==
    /\ InitOthers
    /\ \E property \in RestartContents, readThrows \in BOOLEAN :
          ReportsLoaded(property, readThrows)

NextRestart ==
    \/ AddReport(ReportInputs, MaxReports)
    \/ PersistReportsToDisk
    \/ ClearAllReports

SpecRestart == InitRestart /\ [][NextRestart]_vars

\* the report cache under the calls that change it, with no reader
NextCache ==
    \/ AddReport(ReportInputs, MaxReports)
    \/ PersistReportsToDisk
    \/ ClearAllReports
    \/ ClearReportById

SpecCache == InitReports /\ [][NextCache]_vars

\* the same, where persistReportsToDisk keeps being called and the store does
\* not refuse for ever
SpecFlush == InitReports /\ [][NextCache]_vars /\ WF_vars(Persist(FALSE))

----------------------------------------------------------------------------
(* The last chat message, read as the gateway's contract reads it          *)

Chat == last.op = "handleChatCommand"

LastTokens == split(trim(substring(last.in.message, config.prefix)))

\* the command-name token, lower-cased ("" when there is none)
LastNameToken == toLowerCase(Head(LastTokens))

LastArgs == Tail(LastTokens)

HasName == LastNameToken # ""

AliasConfigured ==
    config.commandAliases.defined /\ LastNameToken \in DOMAIN config.commandAliases.own

\* the token names a property every object inherits, and no alias of its own
AliasInherited ==
    /\ config.commandAliases.defined
    /\ ~AliasConfigured
    /\ LastNameToken \in objectPrototypeKeys

ResolvedName ==
    IF AliasConfigured THEN toLowerCase(config.commandAliases.own[LastNameToken])
    ELSE LastNameToken

Registered ==
    /\ ResolvedName \in DOMAIN commandDefinitionMap
    /\ ResolvedName \in DOMAIN commandExecutionMap

Enabled == isEffectivelyEnabled(commandDefinitionMap[ResolvedName], config, ResolvedName)

Permitted ==
    ~(last.in.player.level > commandDefinitionMap[ResolvedName].permissionLevel)

PassesChecks == HasName /\ ~AliasInherited /\ Registered /\ Enabled /\ Permitted

ToSender(m) == <<[to |-> last.in.player.id, msg |-> m]>>

UnknownText(name) ==
    Msg("§cUnknown command: {0}{1}§r. Type {0}help for assistance.", <<config.prefix, name>>)

C2_DispatchInvokesExecutor ==
    Chat /\ PassesChecks =>
        LET r == last.run IN
        /\ Len(r.execCalls) = 1
        /\ r.execCalls[1].actor = last.in.player.id
        /\ r.execCalls[1].args = LastArgs
        /\ {"config", "playerDataManager", "findPlayer", "parseDuration", "logManager",
            "permissionLevels", "commandDefinitionMap"} \subseteq r.execCalls[1].bundle

\* C3 (as claimed): every invocation of handleChatCommand has set
\* eventData.cancel when control first returns to the host, and leaves it set.
C3_AlwaysConsumed ==
    Chat => last.run.cancelAtReturn /\ last.run.cancel

\* what the issuer and the audit log see of a run
Visible(r) ==
    [sent |-> r.sent, cancel |-> r.cancel, cancelAtReturn |-> r.cancelAtReturn,
     execCalls |-> r.execCalls, logged |-> r.logged]

\* the same message from the same issuer with the resolved command not registered
UnregisteredRun ==
    handleChatCommand([sender |-> last.in.player, message |-> last.in.message],
                      banTableOf(last.pre.bans),
                      {p \in Players : p.nameTag \in last.pre.connected}, config,
                      MapDelete(commandDefinitionMap, ResolvedName),
                      MapDelete(commandExecutionMap, ResolvedName), last.in.env)

\* C4: when the resolved command is registered but effectively disabled, the
\* issuer (of any level) sees exactly what the same message gives when that
\* command is not registered: the same message text, the event consumed, no
\* executor invoked and no audit entry.
C4_DisabledLooksUnknown ==
    Chat /\ HasName /\ ~AliasInherited /\ Registered /\ ~Enabled =>
        /\ UnregisteredRun.path = "unknown"
        /\ Visible(last.run) = Visible(UnregisteredRun)
        /\ Len(last.run.sent) = 1
        /\ last.run.cancel
        /\ last.run.execCalls = <<>>
        /\ last.run.logged = <<>>
        /\ auditLog = last.pre.auditLog

\* C4 witness: an owner sent "!ban ..." while the installation's override
\* disables ban, and got the disabled path.
C4_Witness ==
    /\ Chat /\ HasName /\ ~AliasInherited /\ Registered /\ ~Enabled
    /\ ResolvedName = "ban" /\ last.in.player = Olga
    /\ last.run.path = "disabled"
    /\ Len(last.run.sent) = 1

\* the resolved executor raises when it is invoked
ExecutorRaises ==
    commandExecutionMap[ResolvedName] = "other" /\ last.in.env.executorThrows

GenericFailure(name) ==
    Msg("§cAn error occurred while executing command '{0}'. Please report this.", <<name>>)

\* C5 (as claimed): when the resolved executor raises, handleChatCommand
\* catches it: the issuer gets the generic failure message and the handler
\* itself ends without an error.
C5_ExecutorErrorCaught ==
    Chat /\ PassesChecks /\ ExecutorRaises =>
        /\ last.run.error = "none"
        /\ \E i \in DOMAIN last.run.sent :
              last.run.sent[i] = [to |-> last.in.player.id, msg |-> GenericFailure(ResolvedName)]

\* C6 (as claimed): "<prefix>ban Alice 7d griefing" from an owner, with Alice
\* connected and not an admin, applies the ban, kicks Alice with a reason that
\* contains "griefing" and an expiry of now + 7 days, answers the issuer with
\* the success message and appends one audit entry of type "ban" for "Alice".
C6_BanThroughGateway ==
    ( /\ Chat /\ PassesChecks
      /\ last.in.message = <<"!", "ban", " ", "Alice", " ", "7d", " ", "griefing">>
      /\ last.in.player = Olga
      /\ "Alice" \in last.pre.connected )
    =>
        LET r == last.run IN
        /\ bans[Alice.id]
        /\ Len(r.kicks) = 1
        /\ r.kicks[1].target = "Alice"
        /\ \E i \in DOMAIN r.kicks[1].message[2].reason.params :
              r.kicks[1].message[2].reason.params[i] = "griefing"
        /\ r.kicks[1].message[4].at = last.in.env.now + 7 * 24 * 60 * 60 * 1000
        /\ \E i \in DOMAIN r.sent :
              r.sent[i].to = Olga.id /\ r.sent[i].msg.text = "command.ban.success"
        /\ Len(r.logged) = 1
        /\ r.logged[1].actionType = "ban" /\ r.logged[1].targetName = "Alice"
        /\ auditLog = Append(last.pre.auditLog, "ban")

----------------------------------------------------------------------------
(* The last direct call of the ban executor, read as its contract reads it *)

Exec == last.op = "execute"

Issuer == last.in.player

HumanIssuer == Issuer # NullPlayer

\* a target name was given and a connected player has it
TargetFound ==
    /\ Len(last.in.args) >= 1
    /\ last.in.args[1] \in last.pre.connected

Target == CHOOSE p \in Players : p.nameTag = last.in.args[1]

\* the duration string the command works with, and whether it is a valid one
GivenDuration ==
    IF Len(last.in.args) >= 2 THEN last.in.args[2] ELSE "perm"

DurationAccepted ==
    LET d == parseDuration(GivenDuration)
    IN  d.kind = "inf" \/ (d.kind = "num" /\ d.ms > 0)

\* the run changed nothing: no ban, no kick, no notification, no audit entry
NothingMutated ==
    /\ last.run.addBanCalls = <<>>
    /\ last.run.kickAttempts = 0
    /\ last.run.kicks = <<>>
    /\ last.run.notified = <<>>
    /\ last.run.logged = <<>>
    /\ bans = last.pre.bans
    /\ {p.nameTag : p \in connected} = last.pre.connected
    /\ auditLog = last.pre.auditLog

DenialKeys ==
    {"command.ban.permissionInsufficient", "command.ban.ownerByNonOwner",
     "command.ban.ownerByOwner", "command.ban.self"}

\* C7: a human issuer (invokedBy "PlayerCommand") below owner tier who targets a
\* connected player at or above the admin threshold gets a denial, and nothing
\* is mutated: addBan is not called, nobody is kicked, no admin notification is
\* sent and no audit entry is written.
C7_HierarchyDenial ==
    ( /\ Exec /\ last.in.invokedBy = "PlayerCommand" /\ HumanIssuer /\ TargetFound
      /\ Issuer.level > permissionLevels.owner
      /\ Target.level <= permissionLevels.admin )
    =>
        /\ last.run.error = "none"
        /\ Len(last.run.sent) = 1
        /\ last.run.sent[1].to = Issuer.id
        /\ last.run.sent[1].msg.text \in
              {"command.ban.permissionInsufficient", "command.ban.ownerByNonOwner",
               "command.ban.self"}
        /\ NothingMutated

\* C7 witness: the admin Adam tried to ban the owner Olga and was denied.
C7_Witness ==
    /\ Exec /\ last.in.invokedBy = "PlayerCommand" /\ Issuer = Adam /\ TargetFound
    /\ Target = Olga
    /\ Len(last.run.sent) = 1
    /\ last.run.sent[1].msg.text = "command.ban.permissionInsufficient"
    /\ last.run.addBanCalls = <<>>

\* what C8 promises of a run
AutoModBanApplied ==
    /\ last.run.error = "none"
    /\ last.run.sent = <<>>
    /\ Len(last.run.addBanCalls) = 1
    /\ last.run.addBanCalls[1].target = Target.id
    /\ last.run.addBanCalls[1].bannedBy = "AutoMod"
    /\ (last.in.env.addBanOk =>
          /\ bans[Target.id]
          /\ \A i \in DOMAIN last.run.logged : last.run.logged[i].adminName = "AutoMod"
          /\ ("addLog" \in last.in.dependencies => Len(last.run.logged) = 1))

\* C8 (as claimed): a call with a null issuer and isAutoModAction = true, for a
\* connected target and a valid duration, makes no hierarchy check, raises no
\* error, applies the ban, and passes "AutoMod" as bannedBy to addBan and to the
\* audit entry.
C8_NullIssuerAutoModFlag ==
    Exec /\ ~HumanIssuer /\ last.in.isAutoModAction /\ TargetFound /\ DurationAccepted
        => AutoModBanApplied

\* C8 (amended): the same with invokedBy = "AutoMod": bannedBy follows the
\* invokedBy argument, not the isAutoModAction flag.
C8_NullIssuerAutoMod ==
    ( /\ Exec /\ ~HumanIssuer /\ last.in.isAutoModAction
      /\ last.in.invokedBy = "AutoMod"
      /\ TargetFound /\ DurationAccepted )
    => AutoModBanApplied

\* C8 witness: AutoMod banned the owner Olga with a null issuer.
C8_Witness ==
    /\ Exec /\ ~HumanIssuer /\ last.in.isAutoModAction /\ last.in.invokedBy = "AutoMod"
    /\ TargetFound /\ Target = Olga /\ DurationAccepted
    /\ last.in.env.addBanOk
    /\ bans[Olga.id]
    /\ Len(last.run.addBanCalls) = 1
    /\ last.run.addBanCalls[1].bannedBy = "AutoMod"
    /\ Len(last.run.logged) = 1
    /\ last.run.logged[1].adminName = "AutoMod"

UsageMessage == Msg("command.ban.usage", <<config.prefix>>)

\* C9 (as claimed): a call with no arguments answers with the usage message, to
\* the issuer or, with a null issuer, as the console warning, and mutates
\* nothing.
C9_UsageEverywhere ==
    Exec /\ Len(last.in.args) = 0 =>
        /\ NothingMutated
        /\ last.run.error = "none"
        /\ (HumanIssuer =>
              last.run.sent = <<[to |-> Issuer.id, msg |-> UsageMessage]>>
              /\ last.run.console = <<>>)
        /\ (~HumanIssuer =>
              last.run.sent = <<>> /\ last.run.console = <<UsageMessage>>)

\* C9 (amended): a call with no arguments answers a human issuer with the usage
\* message; with a null issuer it writes one console warning, a fixed text about
\* the missing arguments that is not the usage message; either way nothing is
\* mutated.
C9_UsageNoMutation ==
    Exec /\ Len(last.in.args) = 0 =>
        /\ NothingMutated
        /\ last.run.error = "none"
        /\ (HumanIssuer =>
              last.run.sent = <<[to |-> Issuer.id, msg |-> UsageMessage]>>
              /\ last.run.console = <<>>)
        /\ (~HumanIssuer =>
              /\ last.run.sent = <<>>
              /\ Len(last.run.console) = 1
              /\ last.run.console[1] # UsageMessage
              /\ last.run.console[1].text =
                    "Ban command called without player and insufficient args by system.")

\* C9 witness: the system called ban with no arguments and a null issuer.
C9_Witness ==
    /\ Exec /\ Len(last.in.args) = 0 /\ ~HumanIssuer
    /\ Len(last.run.console) = 1
    /\ last.run.addBanCalls = <<>>

\* the call got as far as the duration: a target was found and no denial was sent
ReachedDuration ==
    /\ Exec /\ TargetFound
    /\ last.run.error = "none"
    /\ \A i \in DOMAIN last.run.sent : last.run.sent[i].msg.text \notin DenialKeys

InvalidDurationAnswered ==
    IF HumanIssuer
    THEN last.run.sent = <<[to |-> Issuer.id, msg |-> Msg("command.ban.invalidDuration", <<>>)]>>
    ELSE /\ last.run.sent = <<>>
         /\ Len(last.run.console) = 1
         /\ last.run.console[1].text = "command.ban.invalidDuration (Invoked by {0})"

\* C10: the ban command rejects a duration that parseDuration gives as null or
\* as a finite value <= 0 (invalid-duration answer, addBan not called), accepts
\* a positive finite value or Infinity (addBan called with it), and treats an
\* omitted duration as "perm".
C10_DurationCheck ==
    /\ (ReachedDuration /\ ~DurationAccepted =>
          InvalidDurationAnswered /\ NothingMutated)
    /\ (ReachedDuration /\ DurationAccepted =>
          /\ Len(last.run.addBanCalls) = 1
          /\ last.run.addBanCalls[1].durationMs = parseDuration(GivenDuration))
    /\ (Exec /\ last.run.addBanCalls # <<>> =>
          LET d == last.run.addBanCalls[1].durationMs
          IN  d.kind = "inf" \/ (d.kind = "num" /\ d.ms > 0))
    /\ (ReachedDuration /\ Len(last.in.args) = 1 =>
          /\ Len(last.run.addBanCalls) = 1
          /\ last.run.addBanCalls[1].durationMs = [kind |-> "inf", ms |-> 0]
          /\ \A i \in DOMAIN last.run.logged : last.run.logged[i].duration = "perm")

\* C10 witness: a zero duration was rejected before addBan.
C10_Witness ==
    /\ ReachedDuration /\ GivenDuration = "0d"
    /\ InvalidDurationAnswered
    /\ last.run.addBanCalls = <<>>

\* addBan was called in the last run, for a found target
AddBanCalled == Exec /\ TargetFound /\ Len(last.run.addBanCalls) = 1

FailureMessage == Msg("command.ban.fail", <<Target.nameTag>>)

\* C11: when addBan returns a falsy result the ban command emits the failure
\* message, to the issuer or to the console when the issuer is null, and does
\* nothing else: no kick, no success message, no admin notification, no audit
\* entry, no ban record.
C11_BanFailureOnlyAnswers ==
    AddBanCalled /\ ~last.in.env.addBanOk =>
        /\ last.run.error = "none"
        /\ (HumanIssuer =>
              /\ last.run.sent = <<[to |-> Issuer.id, msg |-> FailureMessage]>>
              /\ last.run.console = <<>>)
        /\ (~HumanIssuer =>
              last.run.sent = <<>> /\ last.run.console = <<FailureMessage>>)
        /\ last.run.kickAttempts = 0
        /\ last.run.kicks = <<>>
        /\ last.run.notified = <<>>
        /\ last.run.logged = <<>>
        /\ bans = last.pre.bans
        /\ {p.nameTag : p \in connected} = last.pre.connected
        /\ auditLog = last.pre.auditLog

\* C11 witness: the owner Olga's ban of Alice failed in addBan and Olga was told.
C11_Witness ==
    /\ AddBanCalled /\ ~last.in.env.addBanOk
    /\ Issuer = Olga /\ Target = Alice
    /\ last.run.sent = <<[to |-> Olga.id, msg |-> FailureMessage]>>
    /\ last.run.kickAttempts = 0

\* the success message of the last run
SuccessText(m) == m.text = "command.ban.success"

----------------------------------------------------------------------------
(* The calls of executeCheckAction, read as the engine's contract reads it *)

\* the profile the configuration holds for a detection's check type is
\* missing (also when the whole table is) or is not enabled
ProfileOff(d) ==
    \/ "config.checkActionProfiles" \notin d.dependencies
    \/ d.checkType \notin DOMAIN checkActionProfiles
    \/ ~checkActionProfiles[d.checkType].enabled

\* the call t has had no consequence
NoConsequence(t) ==
    /\ t.error = "none"
    /\ t.flagCalls = <<>> /\ t.flagsSettled = 0
    /\ t.logged = <<>>
    /\ t.notified = <<>>
    /\ t.stored = <<>>
    /\ t.lookups = 0

\* C13: for any actor (also null), any violation details and any sub-keys of
\* the profile, a call of executeCheckAction whose profile has enabled false,
\* or whose check type has no profile, ends at once with zero addFlag calls,
\* zero log entries, zero admin notifications and the players' moderation
\* state unchanged.
C13_DisabledNoConsequence ==
    [][ \A h \in Handlers :
          (tasks'[h] # tasks[h] /\ ProfileOff(tasks'[h].in)) =>
              /\ tasks'[h].pc = "done"
              /\ NoConsequence(tasks'[h])
              /\ playerData' = playerData ]_vars

\* C13 witness: Alice was reported for speed_ground, whose profile is disabled
\* and has flag, log and notifyAdmins sub-keys; the call left only a trace.
C13_Witness ==
    /\ tasks[1].pc = "done"
    /\ tasks[1].in.player = Alice
    /\ tasks[1].in.checkType = "speed_ground"
    /\ tasks[1].in.violationDetails = ItemDetails
    /\ tasks[1].in.dependencies = allCollaborators
    /\ tasks[1].debug = <<"disabled">>
    /\ NoConsequence(tasks[1])

\* the profile of a detection whose check type has an enabled profile
ProfileOf(d) == checkActionProfiles[d.checkType]

\* the flagging step applies to a detection: a non-null actor, an enabled
\* profile with a flag sub-key, and the flag store among the dependencies
FlagsApply(d) ==
    /\ d.player # NullPlayer
    /\ ~ProfileOff(d)
    /\ Has(ProfileOf(d), "flag")
    /\ "playerDataManager.addFlag" \in d.dependencies

ExpectedIncrement(d) ==
    IF Has(ProfileOf(d).flag, "increment") THEN ProfileOf(d).flag.increment ELSE 1

ExpectedFlagType(d) ==
    IF Has(ProfileOf(d).flag, "type") THEN ProfileOf(d).flag.type ELSE d.checkType

\* C14: with a non-null actor and profile.flag present, a call of
\* executeCheckAction issues exactly n = (profile.flag.increment, or 1) addFlag
\* calls for the flag type (profile.flag.type, or the check type), one after
\* another: the (k+1)-th is started only when the k-th has settled, also while
\* other calls of executeCheckAction are in progress.
C14_FlagsSequenced ==
    \A h \in Handlers :
        LET t == tasks[h] IN
        (t.pc # "idle" /\ FlagsApply(t.in)) =>
            /\ Len(t.flagCalls) <= ExpectedIncrement(t.in)
            /\ Len(t.flagCalls) - t.flagsSettled \in {0, 1}
            /\ (t.pc = "awaitFlag" <=> Len(t.flagCalls) = t.flagsSettled + 1)
            /\ \A k \in DOMAIN t.flagCalls :
                  /\ t.flagCalls[k].settledBefore = k - 1
                  /\ t.flagCalls[k].flagType = ExpectedFlagType(t.in)
                  /\ t.flagCalls[k].player = t.in.player.id
            /\ (t.pc = "done" =>
                  /\ Len(t.flagCalls) = ExpectedIncrement(t.in)
                  /\ t.flagsSettled = ExpectedIncrement(t.in))

\* C14 witness: a fly_hover report of Alice has made its two addFlag calls,
\* the second after the first had settled, while another report of her was
\* waiting for its own addFlag.
C14_Witness ==
    /\ tasks[1].pc = "done"
    /\ tasks[1].in.checkType = "fly_hover"
    /\ Len(tasks[1].flagCalls) = 2
    /\ tasks[1].flagCalls[2].settledBefore = 1
    /\ tasks[1].flagsSettled = 2
    /\ tasks[2].pc = "awaitFlag"
    /\ playerData[Alice.id].flags["movement_fly"] >= 2

\* the sub-keys of an enabled profile that ask for a log entry / a notification
LogConfigured(d) == Has(ProfileOf(d), "log")

NotifyConfigured(d) ==
    /\ Has(ProfileOf(d), "notifyAdmins")
    /\ Has(ProfileOf(d).notifyAdmins, "message")
    /\ ProfileOf(d).notifyAdmins.message # <<>>

\* C15: with a null actor and an enabled profile a call of executeCheckAction
\* ends without an error, makes no addFlag call and no player-data lookup,
\* changes no moderation state, and still appends the log entry (targetName
\* "System") when profile.log is present and still sends the admin
\* notification (null actor, null state) when profile.notifyAdmins.message is
\* present, the log store and the notifier being among the dependencies.
C15_NullActorRoutesAround ==
    [][ \A h \in Handlers :
          LET t == tasks'[h]
              d == tasks'[h].in
          IN  (t # tasks[h] /\ t.pc # "idle" /\ d.player = NullPlayer /\ ~ProfileOff(d)) =>
                /\ t.pc = "done"
                /\ t.error = "none"
                /\ t.flagCalls = <<>>
                /\ t.lookups = 0
                /\ t.stored = <<>>
                /\ playerData' = playerData
                /\ (LogConfigured(d) /\ "logManager.addLog" \in d.dependencies =>
                      /\ Len(t.logged) = 1
                      /\ t.logged[1].targetName = "System"
                      /\ t.logged[1].adminName = "System")
                /\ (~LogConfigured(d) => t.logged = <<>>)
                /\ (NotifyConfigured(d) /\ "playerUtils.notifyAdmins" \in d.dependencies =>
                      /\ Len(t.notified) = 1
                      /\ t.notified[1].player = NullPlayer.id
                      /\ t.notified[1].pData = "null")
                /\ (~NotifyConfigured(d) => t.notified = <<>>) ]_vars

\* C15 witness: a system-level fly_hover report (null actor) was logged with
\* targetName "System" and notified, and its flagging was skipped with a trace.
C15_Witness ==
    /\ tasks[1].pc = "done"
    /\ tasks[1].in.player = NullPlayer
    /\ tasks[1].in.checkType = "fly_hover"
    /\ tasks[1].in.dependencies = allCollaborators
    /\ tasks[1].flagCalls = <<>>
    /\ Len(tasks[1].logged) = 1 /\ tasks[1].logged[1].targetName = "System"
    /\ Len(tasks[1].notified) = 1 /\ tasks[1].notified[1].pData = "null"
    /\ "skippedFlagNullPlayer" \in {tasks[1].debug[i] : i \in DOMAIN tasks[1].debug}

\* the actor of a detection has player data
HasData(d) == d.player # NullPlayer /\ getPlayerData(playerData, d.player.id).present

\* C16: when a collaborator is absent from the dependencies (addFlag, addLog,
\* notifyAdmins, getPlayerData or debugLog, or the manager that carries it), a
\* call of executeCheckAction with an enabled profile raises no error, skips
\* the consequence that needs the absent collaborator and performs every other
\* configured consequence.
C16_MissingCollaboratorSkipped ==
    \A h \in Handlers :
        LET t == tasks[h]
            d == tasks[h].in
        IN  (t.pc = "done" /\ ~ProfileOff(d)) =>
              /\ t.error = "none"
              /\ Len(t.flagCalls) = (IF FlagsApply(d) THEN ExpectedIncrement(d) ELSE 0)
              /\ t.flagsSettled = Len(t.flagCalls)
              /\ Len(t.logged) =
                    (IF LogConfigured(d) /\ "logManager.addLog" \in d.dependencies
                     THEN 1 ELSE 0)
              /\ Len(t.notified) =
                    (IF NotifyConfigured(d) /\ "playerUtils.notifyAdmins" \in d.dependencies
                     THEN 1 ELSE 0)
              /\ \A i \in DOMAIN t.notified :
                    t.notified[i].pData # "null" <=>
                        (HasData(d) /\ "playerDataManager.getPlayerData" \in d.dependencies)
              /\ Len(t.stored) =
                    (IF /\ HasData(d) /\ itemTypeId(d.violationDetails) # ""
                        /\ "playerDataManager.getPlayerData" \in d.dependencies
                     THEN 1 ELSE 0)
              /\ ("playerUtils.debugLog" \notin d.dependencies => t.debug = <<>>)

\* C16 witness: Alice was reported for fly_hover with the log store's addLog
\* absent: no log entry, and the two flags, the notification and the stored
\* item id all happened.
C16_Witness ==
    /\ tasks[1].pc = "done"
    /\ tasks[1].in.player = Alice
    /\ tasks[1].in.checkType = "fly_hover"
    /\ tasks[1].in.dependencies = Without("logManager.addLog")
    /\ tasks[1].error = "none"
    /\ tasks[1].logged = <<>>
    /\ Len(tasks[1].flagCalls) = 2
    /\ Len(tasks[1].notified) = 1
    /\ Len(tasks[1].stored) = 1
    /\ playerData[Alice.id].lastViolationDetailsMap["fly_hover"].itemTypeId = "minecraft:tnt"

----------------------------------------------------------------------------
(* The report cache, read as its contract reads it                         *)

\* the entries of the in-memory collection, in order
Reports == Content(reportsInMemory, objects)

\* C17: in every reachable state of the report cache, after initialization
\* from any content of the backing key and after any calls, the in-memory
\* collection holds at most 100 entries, and so does every blob written by
\* persistReportsToDisk.
C17_CapInvariant ==
    /\ Len(reportsInMemory) <= maxReportsCount
    /\ (reportLast.wrote = "written" =>
          Len(dynamicProperty.elements) <= maxReportsCount)

\* C18: starting from an empty cache, after n valid addReport calls the
\* collection holds the min(n, 100) most recently added entries, newest first:
\* index 0 is the last one added, and each add beyond the cap has dropped the
\* oldest entry.
C18_NewestFirstCap ==
    LET n == Len(reportsAdded)
    IN  /\ Len(reportsInMemory) = (IF n > maxReportsCount THEN maxReportsCount ELSE n)
        /\ \A i \in DOMAIN reportsInMemory :
              /\ Reports[i].id = reportsAdded[n - i + 1]
              /\ Reports[i].timestamp = n - i + 1
              /\ Reports[i].reason = "griefing"

\* C18 witness: 101 reports were added; the cache holds 100, the newest first,
\* and the first report added is gone.
C18_Witness ==
    /\ Len(reportsAdded) = maxReportsCount + 1
    /\ Len(reportsInMemory) = maxReportsCount
    /\ Reports[1].id = reportsAdded[maxReportsCount + 1]
    /\ Reports[maxReportsCount].id = reportsAdded[2]
    /\ \A i \in DOMAIN reportsInMemory : Reports[i].id # reportsAdded[1]

\* C19: whatever a caller does through the value getReports returned (adding,
\* removing or reordering elements, or changing the fields of an entry), the
\* cache's in-memory collection, its dirty flag and what a later
\* persistReportsToDisk would write stay as they were.
C19_DefensiveCopy ==
    [][ reportLast'.op = "getReports" =>
          /\ Content(reportsInMemory', objects') = Content(reportsInMemory, objects)
          /\ reportsAreDirty' = reportsAreDirty
          /\ stringify(reportsInMemory', objects') = stringify(reportsInMemory, objects)
      ]_vars

\* the last call was persistReportsToDisk itself
Persisted == reportLast.op = "persistReportsToDisk"

\* what C20 says of a write that succeeds, and of the collection in any case
PersistKeepsCollection ==
    reportLast'.op = "persistReportsToDisk" =>
        /\ Content(reportsInMemory', objects') = Content(reportsInMemory, objects)
        /\ (reportLast'.wrote = "failed" =>
              /\ reportLast'.result = FALSE
              /\ dynamicProperty' = dynamicProperty)
        /\ (reportLast'.wrote = "written" =>
              /\ reportLast'.result = TRUE
              /\ dynamicProperty' = stringify(reportsInMemory', objects')
              /\ Len(dynamicProperty'.elements) = Len(reportsInMemory')
              /\ ~reportsAreDirty')

\* C20 (as claimed): when the store write inside persistReportsToDisk fails it
\* returns false, no error propagates, collection and blob are unchanged and
\* the dirty flag is set afterwards; when the write succeeds it returns true,
\* the blob is the serialization of the whole collection and the flag is clear.
C20_FailedWriteLeavesDirty ==
    [][ /\ PersistKeepsCollection
        /\ (reportLast'.op = "persistReportsToDisk" /\ reportLast'.wrote = "failed" =>
              reportsAreDirty') ]_vars

\* C20 (amended): the same, with the dirty flag left as it was by a failed
\* write: a set flag stays set, and a write attempted with a clear flag (the
\* backing key being missing) leaves the flag clear and the key missing.
C20_FailedWriteKeepsFlag ==
    [][ /\ PersistKeepsCollection
        /\ (reportLast'.op = "persistReportsToDisk" /\ reportLast'.wrote = "failed" =>
              /\ reportsAreDirty' = reportsAreDirty
              /\ (reportsAreDirty \/ dynamicProperty'.kind = "undefined")) ]_vars

\* C20 witness: a report was added and the store refused the write: persist
\* returned false, the entry is still in memory and the flag is still set.
C20_Witness ==
    /\ Persisted
    /\ reportLast.wrote = "failed" /\ reportLast.result = FALSE
    /\ reportsAreDirty
    /\ Len(reportsAdded) = 1
    /\ Len(reportsInMemory) >= 1 /\ Reports[1].id = reportsAdded[1]


\* the ids of the entries in memory
IdsInMemory == {Reports[i].id : i \in DOMAIN Reports}

\* a call of clearReportById that named an id no entry had
ClearedAbsent == reportLast'.op = "clearReportById" /\ reportLast'.reportId \notin IdsInMemory

\* C21: clearReportById with an id that matches no entry returns false and has
\* no side effects: the collection, the dirty flag and the persisted blob are
\* as before and no store write is attempted; the same call made again, any
\* number of times, answers the same and again changes nothing.
C21_AbsentIdNoEffect ==
    [][ ClearedAbsent =>
          /\ reportLast'.result = FALSE
          /\ reportLast'.wrote = "none"
          /\ Content(reportsInMemory', objects') = Content(reportsInMemory, objects)
          /\ reportsAreDirty' = reportsAreDirty
          /\ dynamicProperty' = dynamicProperty
          /\ \A writeFails \in BOOLEAN :
               LET after == Cache(reportsInMemory', reportsAreDirty', dynamicProperty', objects')
                   again == clearReportById(after, reportLast'.reportId, writeFails)
               IN  /\ again.result = FALSE
                   /\ again.wrote = "none"
                   /\ again.cache = after
      ]_vars

\* C21 witness: a cache holding an unsaved report was asked to clear an id no
\* entry has; it answered false and the report is still there, still unsaved.
C21_Witness ==
    /\ reportLast.op = "clearReportById" /\ reportLast.reportId = "r0"
    /\ reportLast.result = FALSE /\ reportLast.wrote = "none"
    /\ Len(reportsInMemory) = 1 /\ Reports[1].id = "r1"
    /\ reportsAreDirty


----------------------------------------------------------------------------
(* Enablement of a command, read as the gateway's contract reads it        *)

\* the installation's override table has a boolean `enabled` for the resolved
\* command
OverridePresent ==
    /\ config.commandSettings.defined
    /\ ResolvedName \in DOMAIN config.commandSettings.own
    /\ config.commandSettings.own[ResolvedName].hasEnabled

\* the override wins when present, the compiled-in value counts otherwise
EffectiveEnablement ==
    IF OverridePresent THEN config.commandSettings.own[ResolvedName].enabled
    ELSE commandDefinitionMap[ResolvedName].enabled

\* C23: in handleChatCommand the effective enablement of the resolved command
\* is the override config.commandSettings[name].enabled whenever the override
\* table has one for that command, and the definition's compiled-in value
\* otherwise; the handler goes past the enablement check exactly when that
\* value is true, so an executor is invoked only when it is true.
C23_OverrideWins ==
    Chat /\ HasName /\ ~AliasInherited /\ Registered =>
        /\ (last.run.path = "disabled") = ~EffectiveEnablement
        /\ (~EffectiveEnablement =>
              last.run.execCalls = <<>> /\ last.run.sent = ToSender(UnknownText(ResolvedName)))
        /\ (last.run.execCalls # <<>> => EffectiveEnablement)

\* C23 witness: vanish is compiled in disabled and the installation's override
\* enables it; an owner's "!vanish" went past the enablement check.
C23_Witness ==
    /\ Chat /\ HasName /\ ~AliasInherited /\ Registered
    /\ ResolvedName = "vanish" /\ last.in.player = Olga
    /\ ~commandDefinitionMap["vanish"].enabled
    /\ OverridePresent /\ config.commandSettings.own["vanish"].enabled
    /\ last.run.path \notin {"disabled", "unknown", "denied", ""}


----------------------------------------------------------------------------
(* The report cache right after the module was loaded                      *)

JustLoaded == reportLast.op = "initializeReportCache"

\* the backing key holds the JSON text of an array and can be read
ArrayRead ==
    /\ ~reportLast.readThrows
    /\ dynamicProperty.kind = "string" /\ dynamicProperty.json = "array"

\* C22: initialization of the report cache never fails. When the backing key
\* is missing, holds a non-string, holds text that is not JSON or JSON that is
\* no array, or cannot be read, the collection starts empty with the dirty
\* flag clear; when it holds the JSON text of an array, the parsed array is
\* the collection (every element, in order). The store is left as it was.
C22_InitializationNeverFails ==
    JustLoaded =>
        /\ ~reportsAreDirty
        /\ dynamicProperty \in RestartContents
        /\ (~ArrayRead => reportsInMemory = <<>>)
        /\ (ArrayRead =>
              /\ Len(reportsInMemory) = Len(dynamicProperty.elements)
              /\ \A i \in DOMAIN reportsInMemory :
                    /\ Reports[i] = parseEntry(dynamicProperty.elements[i])
                    /\ Reports[i] = oldEntry(i))

\* C22 witness: the key held two reports but reading it threw; the cache
\* started empty and clean.
C22_Witness ==
    /\ JustLoaded /\ reportLast.readThrows
    /\ dynamicProperty = oldArray(2)
    /\ reportsInMemory = <<>> /\ ~reportsAreDirty


----------------------------------------------------------------------------
(* formatViolationDetails, read as its contract reads it                   *)

Formatted == formatted.op = "formatViolationDetails"

\* a non-empty map: an object that is no array, with at least one property
NonEmptyMap(value) == value.kind = "object" /\ value.entries # <<>>

\* the text "key: value" of each property, in the order the properties were
\* added, joined by ", "
PairsInInsertionOrder(value) ==
    join([i \in DOMAIN value.entries |->
             <<value.entries[i].key, ":", " ", value.entries[i].value.str>>],
         <<",", " ">>)

\* C24: formatViolationDetails returns the 'key: value' pairs of the details
\* map joined by ', ' in insertion order for every non-empty map, and "N/A"
\* for every empty, absent (null or undefined) or non-map input.
C24_PairsOrSentinel ==
    Formatted =>
        formatted.out = (IF NonEmptyMap(formatted.in)
                         THEN PairsInInsertionOrder(formatted.in)
                         ELSE <<"N/A">>)

\* what does hold: maps whose keys are not integers, and input that is
\* neither a map nor a non-empty array
C24_NamedKeysOrSentinel ==
    Formatted =>
        /\ ( /\ NonEmptyMap(formatted.in)
             /\ \A i \in DOMAIN formatted.in.entries : arrayIndex(formatted.in.entries[i].key) < 0
             => formatted.out = PairsInInsertionOrder(formatted.in) )
        /\ (formatted.in.entries = <<>> => formatted.out = <<"N/A">>)


----------------------------------------------------------------------------
(* The audit entry of a failed executor                                    *)

\* C25: when the executor fails, handleChatCommand appends exactly one entry
\* to the audit log: a structured record, shaped as the entries the ban
\* command and the action engine append, whose actionType is "command_error"
\* and which carries the command name, the issuer, the arguments and the
\* error message.
C25_CommandErrorEntry ==
    Chat /\ PassesChecks /\ ExecutorRaises =>
        /\ Len(last.run.logged) = 1
        /\ auditLog = Append(last.pre.auditLog, "command_error")
        /\ LET entry == last.run.logged[1]
           IN  /\ entry.shape = "entry"
               /\ entry.actionType = "command_error"
               /\ entry.adminName = last.in.player.nameTag
               /\ \E i \in DOMAIN entry.reason.params : entry.reason.params[i] = ResolvedName


----------------------------------------------------------------------------
(* Owners as targets of the ban command                                    *)

\* a human issued the ban command and named a connected owner
OwnerTargeted ==
    /\ Exec /\ last.in.invokedBy = "PlayerCommand" /\ HumanIssuer /\ TargetFound
    /\ Target.level = permissionLevels.owner

\* the issuer got exactly this answer
Answered(key) ==
    /\ Len(last.run.sent) = 1
    /\ last.run.sent[1].to = Issuer.id
    /\ last.run.sent[1].msg.text = key

\* C26: a human issuer can never ban an owner through the ban command. An
\* owner naming another owner gets the owner-by-owner denial, an owner naming
\* themself gets the self-ban rejection, and whoever the human issuer is,
\* addBan is not called and no ban record is created for the owner.
C26_OwnerNeverBanned ==
    OwnerTargeted =>
        /\ last.run.error = "none"
        /\ (Issuer.level = permissionLevels.owner /\ Issuer.id # Target.id =>
              Answered("command.ban.ownerByOwner"))
        /\ (Issuer.id = Target.id => Answered("command.ban.self"))
        /\ NothingMutated
        /\ bans[Target.id] = last.pre.bans[Target.id]

\* C26 witness: the owner Olga tried to ban the owner Oscar for good, with
\* every dependency in place, and was denied.
C26_Witness ==
    /\ OwnerTargeted /\ Issuer = Olga /\ Target = Oscar
    /\ last.in.args = <<"Oscar", "perm", "abuse", "of", "power">>
    /\ last.in.env.addBanOk
    /\ Answered("command.ban.ownerByOwner")
    /\ last.run.addBanCalls = <<>> /\ ~bans[Oscar.id]


----------------------------------------------------------------------------
(* Clearing reports                                                        *)

\* the last call cleared all reports, or cleared by an id some entry had
ClearedAll == reportLast'.op = "clearAllReports"

ClearedPresent == reportLast'.op = "clearReportById" /\ reportLast'.reportId \in IdsInMemory

\* the entries that stay when those with an id are removed
Remaining(reportId) == SelectSeq(Reports, LAMBDA entry : entry.id # reportId)

\* what C27 says of the persist call a clear operation ends with: it is
\* attempted at once (the dirty flag having been set), its result is the
\* operation's result, and after a true result the blob is the serialized
\* collection and the flag is clear
PersistedAtOnce ==
    /\ reportLast'.wrote \in {"written", "failed"}
    /\ reportLast'.result = (reportLast'.wrote = "written")
    /\ (reportLast'.result =>
          /\ dynamicProperty' = stringify(reportsInMemory', objects')
          /\ ~reportsAreDirty')
    /\ (~reportLast'.result =>
          /\ dynamicProperty' = dynamicProperty
          /\ reportsAreDirty')

\* C27: clearAllReports removes every entry, and clearReportById with an id
\* that is present removes every entry with that id and no other; both set
\* the dirty flag and call persistReportsToDisk at once, return what it
\* returns, and after a true result the persisted blob is the serialized
\* in-memory collection, without the removed entries, and the flag is clear.
C27_ClearsPersistAtOnce ==
    [][ /\ (ClearedAll =>
              /\ reportsInMemory' = <<>>
              /\ PersistedAtOnce
              /\ (reportLast'.result => dynamicProperty' = ArrayProperty(<<>>)))
        /\ (ClearedPresent =>
              /\ Content(reportsInMemory', objects') = Remaining(reportLast'.reportId)
              /\ Len(reportsInMemory') < Len(reportsInMemory)
              /\ PersistedAtOnce
              /\ (reportLast'.result =>
                    \A i \in DOMAIN dynamicProperty'.elements :
                        parseEntry(dynamicProperty'.elements[i]).id # reportLast'.reportId))
      ]_vars

\* C27 witness: of the two reports loaded, the first was cleared by its id and
\* the other was written to the store.
C27_Witness ==
    /\ reportLast.op = "clearReportById" /\ reportLast.reportId = "old1"
    /\ reportLast.result /\ reportLast.wrote = "written"
    /\ Len(reportsInMemory) = 1 /\ Reports[1].id = "old2"
    /\ dynamicProperty = ArrayProperty(<<stringifyEntry(oldEntry(2))>>)
    /\ ~reportsAreDirty


----------------------------------------------------------------------------
(* The dirty flag and the store                                            *)

\* the backing key exists
KeyExists == dynamicProperty.kind # "undefined"

\* the backing key holds the JSON text of an array
KeyHoldsArray == dynamicProperty.kind = "string" /\ dynamicProperty.json = "array"

\* JSON.parse of the blob gives the in-memory collection: the same entries in
\* the same order
BlobIsCollection ==
    /\ KeyHoldsArray
    /\ Len(dynamicProperty.elements) = Len(reportsInMemory)
    /\ \A i \in DOMAIN reportsInMemory : parseEntry(dynamicProperty.elements[i]) = Reports[i]

\* C28 (as claimed): in every state reached from initialization, with any
\* content of the backing key, through addReport, clearAllReports,
\* clearReportById and persistReportsToDisk calls whose writes may fail,
\* whenever the dirty flag is clear and the backing key exists, the persisted
\* blob deserializes to exactly the in-memory collection.
C28_CleanMeansSaved == ~reportsAreDirty /\ KeyExists => BlobIsCollection

\* C28 (amended): the same whenever the dirty flag is clear and the backing
\* key holds the JSON text of an array that initialization read or that a
\* write has put there since.
C28_CleanMeansSavedOnceRead ==
    ~reportsAreDirty /\ KeyHoldsArray /\ ~reportLast.unread => BlobIsCollection

\* C28 witness: a report was added and written, and the clean cache is what
\* the store holds.
C28_Witness ==
    /\ ~reportsAreDirty /\ KeyHoldsArray /\ ~reportLast.unread
    /\ reportLast.op = "persistReportsToDisk" /\ reportLast.wrote = "written"
    /\ Len(reportsAdded) = 1
    /\ Len(reportsInMemory) = 1 /\ Reports[1].id = "r1"
    /\ BlobIsCollection


----------------------------------------------------------------------------
(* Flushing the report cache                                               *)

\* the store refused the write of the last call
WriteFailed == reportLast'.wrote = "failed"

\* the entries the last call was asked to remove
AskedToRemove(entry) ==
    \/ reportLast'.op = "clearAllReports"
    \/ reportLast'.op = "clearReportById" /\ entry.id = reportLast'.reportId

\* a call whose write failed kept every entry it was not asked to remove, in
\* order, and left the flag set for the next attempt whenever it was set
FailedWriteKeepsEntries ==
    WriteFailed =>
        /\ Content(reportsInMemory', objects')
             = SelectSeq(Reports, LAMBDA entry : ~AskedToRemove(entry))
        /\ dynamicProperty' = dynamicProperty
        /\ (reportsAreDirty => reportsAreDirty')

\* C29: while persistReportsToDisk keeps being retried and the store does not
\* refuse for ever, a cache that is dirty (or whose backing key is missing)
\* is eventually clean with the persisted blob equal to the in-memory
\* collection, whatever mutations and failed writes come before; and a failed
\* write never drops an entry that was added and
\* neither evicted by the cap nor cleared.
C29_EventualFlush ==
    /\ (reportsAreDirty \/ ~KeyExists) ~> (~reportsAreDirty /\ BlobIsCollection)
    /\ [][FailedWriteKeepsEntries]_vars

\* C29 witness: clearing the two loaded reports failed at the store: the cache
\* is empty and dirty while the key still holds both, waiting for a retry.
C29_Witness ==
    /\ reportLast.op = "clearAllReports" /\ reportLast.wrote = "failed"
    /\ ~reportLast.result
    /\ reportsAreDirty /\ reportsInMemory = <<>>
    /\ dynamicProperty = oldArray(2)

====
